---- MODULE Spec2Model ----
(***************************************************************************)
(* A model of moviepy/video/VideoClip.py: the text layout engine           *)
(* (break_text, find_text_size, find_optimum_font_size), the clip objects  *)
(* with their outplace operations, the compositing step blit_on and the    *)
(* frame sources.  Each part has its own specification over the shared     *)
(* variables; the variables of the other parts stay idle.                  *)
(***************************************************************************)
EXTENDS Integers, Sequences, FiniteSets, TLC

\* ------------------------------------------------------------------ bounds
\* Largest box width given to find_optimum_font_size.
MaxWidth == 4
\* Largest number of characters of a text given to break_text.
MaxTextLen == 5
\* Largest max_width given to break_text.
MaxLineWidth == 4
\* Largest number of calls a caller makes on its clips.
MaxCalls == 2
\* Largest side of a frame or of a mask frame given to blit_on, and of the
\* picture it blits on.
MaxSide == 2
MaxPicture == 3
\* Largest number of frames given to BitmapClip, and the largest fps and
\* duration, in frames per second and in seconds.
MaxFrames == 3
MaxSeconds == 4
\* Python's floats are binary: 53 significant bits, each result rounded to
\* the nearest float, ties to even.  The model keeps that rounding at
\* Precision significant bits, on multiples of 2^-FracBits.
Precision == 4
FracBits == 4
\* UpdatedVideoClip: the latest time asked for, the longest step of the
\* world's clock, and the most frame queries made.
MaxQueryTime == 3
MaxStep == 2
MaxQueries == 3
\* Largest fps given to write_images_sequence.
MaxFps == 4
\* Longest text given to TextClip.
MaxClipText == 3

\* Python's None, and a present value, as sequences of length 0 and 1.
None == <<>>
Some(x) == <<x>>
IsNone(o) == o = <<>>
Val(o) == o[1]

Min(a, b) == IF a <= b THEN a ELSE b
Max(a, b) == IF a >= b THEN a ELSE b

VARIABLES
  \* find_optimum_font_size: its arguments, the measurements the font gives
  \* (find_text_size at each font size), and its locals.
  width, height, measure, min_font_size, max_font_size, measured, font_pc,
  font_size,
  \* break_text: its arguments and locals.
  text, max_width, bt_font_size, words, word_i, current_line, lines, wrap_pc,
  \* The clip objects made so far; the last call: its name ("raised" when it
  \* raised), its receiver and the clip it returned, which the caller holds
  \* next; the number of calls made; the pairs (original, copy) made by copy().
  heap, op, recv, ret, calls, copies,
  \* blit_on: the picture given and the time asked for; the images handed to
  \* blit, the position as resolved so far, and the raster returned.
  picture, blit_t, im_img, im_mask, blit_pos, blit_ret, blit_pc,
  \* BitmapClip: the constructor's arguments, the attributes it sets, and the
  \* last get_frame: its time and the index it took from frame_array.
  bitmap_frames, fps_arg, duration_arg, bm_total_frames, bm_fps, bm_duration,
  frame_t, frame_index, frame_ret, bitmap_pc,
  \* A chain of calls on one clip: the clip it started from and the
  \* arguments of the calls made so far.
  chain_start, chain_args,
  \* TextClip.__init__: its arguments; its locals text, font_size,
  \* img_width and img_height; where it stands; the helpers it has called
  \* and the images it has made, in order; the error it raised; and the
  \* clip made.
  tc_args, tc_text, tc_font_size, tc_img_width, tc_img_height, tc_pc,
  tc_trace, tc_error, tc_clip,
  \* UpdatedVideoClip: the world (its clock clip_t and the updates it has
  \* had), the time of the frame query under way, where make_frame stands,
  \* the world's clocks seen since the query began, the frame returned
  \* last, and the queries made.
  world, uc_t, uc_pc, uc_seen, uc_ret, uc_queries,
  \* write_images_sequence: the clip's duration and the fps given; the
  \* locals timings, i and filenames; the frames saved so far, each with
  \* its file name and time; where the method stands, and what it returned.
  seq_duration, seq_fps, timings, seq_i, filenames, saved, seq_pc, seq_ret,
  \* Two callers of one clip: the clip and the heap they start from, the
  \* clip each caller holds (0 before its copy), and the calls each has
  \* made on its copy.
  first_clip, held, logs,
  \* The world as UpdatedVideoClip was given it, and the law its update()
  \* follows: the step of clip_t at each update.
  first_world, step_rule

fontVars == <<width, height, measure, min_font_size, max_font_size, measured,
              font_pc, font_size>>
wrapVars == <<text, max_width, bt_font_size, words, word_i, current_line, lines,
              wrap_pc>>
clipVars == <<heap, op, recv, ret, calls, copies>>
blitVars == <<picture, blit_t, im_img, im_mask, blit_pos, blit_ret, blit_pc>>
bitmapVars == <<bitmap_frames, fps_arg, duration_arg, bm_total_frames, bm_fps,
                bm_duration, frame_t, frame_index, frame_ret, bitmap_pc>>
chainVars == <<chain_start, chain_args>>
textClipVars == <<tc_args, tc_text, tc_font_size, tc_img_width,
                  tc_img_height, tc_pc, tc_trace, tc_error, tc_clip>>
updatedVars == <<world, uc_t, uc_pc, uc_seen, uc_ret, uc_queries>>
sequenceVars == <<seq_duration, seq_fps, timings, seq_i, filenames, saved,
                  seq_pc, seq_ret>>
callersVars == <<first_clip, held, logs>>
lawVars == <<first_world, step_rule>>
vars == <<fontVars, wrapVars, clipVars, blitVars, bitmapVars, chainVars,
          textClipVars, updatedVars, sequenceVars, callersVars, lawVars>>
\* The variables of the other parts.
notFont == <<wrapVars, clipVars, blitVars, bitmapVars, chainVars,
             textClipVars, updatedVars, sequenceVars, callersVars, lawVars>>
notWrap == <<fontVars, clipVars, blitVars, bitmapVars, chainVars,
             textClipVars, updatedVars, sequenceVars, callersVars, lawVars>>
notClip == <<fontVars, wrapVars, blitVars, bitmapVars, chainVars,
             textClipVars, updatedVars, sequenceVars, callersVars, lawVars>>
notBlit == <<fontVars, wrapVars, bitmapVars, chainVars, textClipVars,
             updatedVars, sequenceVars, callersVars, lawVars>>
notBitmap == <<fontVars, wrapVars, clipVars, blitVars, chainVars,
               textClipVars, updatedVars, sequenceVars, callersVars,
               lawVars>>
notChain == <<fontVars, wrapVars, blitVars, bitmapVars, textClipVars,
              updatedVars, sequenceVars, callersVars, lawVars>>
notTextClip == <<fontVars, wrapVars, clipVars, blitVars, bitmapVars,
                 chainVars, updatedVars, sequenceVars, callersVars, lawVars>>
notUpdated == <<fontVars, wrapVars, clipVars, blitVars, bitmapVars,
                chainVars, textClipVars, sequenceVars, callersVars, lawVars>>
notSequence == <<fontVars, wrapVars, clipVars, blitVars, bitmapVars,
                 chainVars, textClipVars, updatedVars, callersVars, lawVars>>
notCallers == <<fontVars, wrapVars, blitVars, bitmapVars, chainVars,
                textClipVars, updatedVars, sequenceVars, lawVars>>
notLaw == <<fontVars, wrapVars, clipVars, blitVars, bitmapVars, chainVars,
            textClipVars, sequenceVars, callersVars>>

FontIdle ==
  /\ width = 0 /\ height = None /\ measure = <<>>
  /\ min_font_size = 0 /\ max_font_size = 0 /\ measured = {}
  /\ font_pc = "idle" /\ font_size = None
WrapIdle ==
  /\ text = <<>> /\ max_width = 0 /\ bt_font_size = 0 /\ words = <<>> /\ word_i = 0
  /\ current_line = <<>> /\ lines = <<>> /\ wrap_pc = "idle"

ClipIdle ==
  /\ heap = <<>> /\ op = "idle" /\ recv = 0 /\ ret = 0 /\ calls = 0
  /\ copies = {}
BlitIdle ==
  /\ picture = None /\ blit_t = 0 /\ im_img = None /\ im_mask = None
  /\ blit_pos = <<>> /\ blit_ret = None /\ blit_pc = "idle"
BitmapIdle ==
  /\ bitmap_frames = <<>> /\ fps_arg = None /\ duration_arg = None
  /\ bm_total_frames = 0 /\ bm_fps = None /\ bm_duration = None
  /\ frame_t = 0 /\ frame_index = 0 /\ frame_ret = None /\ bitmap_pc = "idle"

ChainIdle ==
  /\ chain_start = 0
  /\ chain_args = <<>>

TextClipIdle ==
  /\ tc_args = <<>>
  /\ tc_text = None
  /\ tc_font_size = None
  /\ tc_img_width = None
  /\ tc_img_height = None
  /\ tc_pc = "idle"
  /\ tc_trace = <<>>
  /\ tc_error = None
  /\ tc_clip = None

UpdatedIdle ==
  /\ world = <<>>
  /\ uc_t = 0
  /\ uc_pc = "idle"
  /\ uc_seen = <<>>
  /\ uc_ret = None
  /\ uc_queries = 0

SequenceIdle ==
  /\ seq_duration = None
  /\ seq_fps = 0
  /\ timings = <<>>
  /\ seq_i = 0
  /\ filenames = <<>>
  /\ saved = <<>>
  /\ seq_pc = "idle"
  /\ seq_ret = None

CallersIdle ==
  /\ first_clip = <<>>
  /\ held = <<>>
  /\ logs = <<>>

LawIdle ==
  /\ first_world = <<>>
  /\ step_rule = <<>>

\* ------------------------------------------- find_optimum_font_size
\* The sizes find_text_size can be asked about for a box of width w.
FontSizes(w) == 1..(w + 1)
\* What find_text_size returns at one font size: (text_width, text_height).
\* The widths drawn sit at the box's edge or one pixel beyond it, the heights
\* at 1 or 2 against a height of None or 1.
Measures(w) == {w, w + 1} \X {1, 2}
Heights == {None, Some(1)}

\* find_text_size(text, font, s, ..., max_width=width, allow_break=...)
find_text_size(s) == measure[s]

\* The test of lines 1311 and 1319.
FitsBox(tw, th) ==
  tw <= width /\ (IF IsNone(height) THEN TRUE ELSE th <= Val(height))
Fits(s) == FitsBox(find_text_size(s)[1], find_text_size(s)[2])

\* The midpoint rounded up instead of down.
avg_font_size_Ceil(lo, hi) == (hi + lo + 1) \div 2
\* avg_font_size = int((max_font_size + min_font_size) // 2)
avg_font_size(lo, hi) == (hi + lo) \div 2

FontStart ==
  /\ width \in 1..MaxWidth
  /\ height \in Heights
  /\ measure \in [FontSizes(width) -> Measures(width)]
  /\ max_font_size = width
  /\ min_font_size = 1
  /\ measured = {}
  /\ font_pc = "loop"
  /\ font_size = None

\* One iteration of the bisection loop, lines 1306-1314.
Probe ==
  /\ font_pc = "loop"
  /\ min_font_size < max_font_size
  /\ LET avg == avg_font_size(min_font_size, max_font_size) IN
       /\ measured' = measured \cup {avg}
       /\ IF Fits(avg)
            THEN /\ min_font_size' = avg + 1
                 /\ UNCHANGED max_font_size
            ELSE /\ max_font_size' = avg - 1
                 /\ UNCHANGED min_font_size
  /\ UNCHANGED <<width, height, measure, font_pc, font_size, notFont>>

\* The value returned after the loop, lines 1317-1322.
FinalSize_Unchecked(lo) == lo
FinalSize(lo) == IF Fits(lo) THEN lo ELSE lo - 1

\* Loop exit and the re-validation of the last candidate, lines 1316-1322.
FinalCheck ==
  /\ font_pc = "loop"
  /\ ~(min_font_size < max_font_size)
  /\ measured' = measured \cup {min_font_size}
  /\ font_size' = Some(FinalSize(min_font_size))
  /\ font_pc' = "done"
  /\ UNCHANGED <<width, height, measure, min_font_size, max_font_size, notFont>>

InitFont == FontStart /\ WrapIdle /\ ClipIdle /\ BlitIdle /\ BitmapIdle
  /\ ChainIdle
  /\ TextClipIdle
  /\ UpdatedIdle
  /\ SequenceIdle
  /\ CallersIdle
  /\ LawIdle
NextFont == Probe \/ FinalCheck
SpecFont == InitFont /\ [][NextFont]_vars

\* 'fits' is monotone in the font size: a size that fits, fits at every
\* smaller size too.
Monotone == \A s \in 1..width : Fits(s + 1) => Fits(s)
\* Measuring at s fits; size 0 cannot be measured.
FitsAt(s) == s \in DOMAIN measure /\ Fits(s)

\* C1 as stated: with 'fits' monotone, the returned size fits and the next
\* size does not.
C1_Original ==
  (font_pc = "done" /\ Monotone) =>
     /\ FitsAt(Val(font_size))
     /\ ~FitsAt(Val(font_size) + 1)

\* C1 amended: with 'fits' monotone, the returned size is the largest fitting
\* size among the sizes searched, 1..width, and 0 when none of them fits: it
\* is 0 or fits, and it is width or the next size does not fit.
C1_LargestInRange ==
  (font_pc = "done" /\ Monotone) =>
     LET s == Val(font_size) IN
       /\ s \in 0..width
       /\ s = 0 \/ FitsAt(s)
       /\ s = width \/ ~FitsAt(s + 1)

\* A run that ended inside the range: the size returned fits, the next does not.
C1_Witness ==
  /\ font_pc = "done" /\ Monotone /\ width >= 3
  /\ Val(font_size) \in 2..(width - 1)
  /\ measured # {}

\* ------------------------------------------------------- break_text
\* A text is a sequence of characters; the font has a narrow glyph, a wide
\* glyph and the space.
Chars == {"a", "M", " "}
Texts == UNION {[1..n -> Chars] : n \in 0..MaxTextLen}
BreakFontSizes == {1, 2}

\* The advance of one glyph at font size 1.
Advance(c) == IF c = "M" THEN 2 ELSE 1

RECURSIVE SumAdvance(_)
SumAdvance(str) ==
  IF str = <<>> THEN 0 ELSE Advance(Head(str)) + SumAdvance(Tail(str))

\* temp_right - temp_left of draw.multiline_textbbox for a one-line string:
\* the glyph advances scaled by the font size.
TextWidth(str, fs) == fs * SumAdvance(str)

\* text.split(' '): the pieces between single spaces, empty pieces included.
RECURSIVE SplitFrom(_, _, _)
SplitFrom(str, i, piece) ==
  IF i > Len(str) THEN <<piece>>
  ELSE IF str[i] = " " THEN <<piece>> \o SplitFrom(str, i + 1, <<>>)
  ELSE SplitFrom(str, i + 1, Append(piece, str[i]))
split(str) == SplitFrom(str, 1, <<>>)

\* temp_line = (current_line + ' ' + word if current_line else word)
temp_line(cur, word) == IF cur # <<>> THEN cur \o <<" ">> \o word ELSE word

\* temp_width <= width, lines 1260-1264.
Accepts_WordOnly(cur, word, w, fs) == TextWidth(word, fs) <= w
Accepts(cur, word, w, fs) == TextWidth(temp_line(cur, word), fs) <= w

\* The body of the loop over the words, lines 1259-1268, on the pair
\* (lines, current_line).
BreakStep(ls, cur, word, w, fs) ==
  IF Accepts(cur, word, w, fs)
    THEN [lines |-> ls, current_line |-> temp_line(cur, word)]
    ELSE [lines |-> Append(ls, cur), current_line |-> word]

\* The last line is never appended.
Flush_Dropped(ls, cur) == ls
\* if current_line: lines.append(current_line), lines 1270-1271.
Flush(ls, cur) == IF cur # <<>> THEN Append(ls, cur) ELSE ls

WrapStart ==
  /\ text \in Texts
  /\ max_width \in 1..MaxLineWidth
  /\ bt_font_size \in BreakFontSizes
  /\ words = split(text)
  /\ word_i = 1
  /\ current_line = <<>>
  /\ lines = <<>>
  /\ wrap_pc = "loop"

\* for word in words: one iteration.
WordStep ==
  /\ wrap_pc = "loop"
  /\ word_i <= Len(words)
  /\ LET r == BreakStep(lines, current_line, words[word_i], max_width,
                        bt_font_size) IN
       /\ lines' = r.lines
       /\ current_line' = r.current_line
  /\ word_i' = word_i + 1
  /\ UNCHANGED <<text, max_width, bt_font_size, words, wrap_pc, notWrap>>

\* The loop is over: flush the last line and return.
WrapReturn ==
  /\ wrap_pc = "loop"
  /\ word_i > Len(words)
  /\ lines' = Flush(lines, current_line)
  /\ wrap_pc' = "done"
  /\ UNCHANGED <<text, max_width, bt_font_size, words, word_i, current_line,
                 notWrap>>

InitWrap == WrapStart /\ FontIdle /\ ClipIdle /\ BlitIdle /\ BitmapIdle
  /\ ChainIdle
  /\ TextClipIdle
  /\ UpdatedIdle
  /\ SequenceIdle
  /\ CallersIdle
  /\ LawIdle
NextWrap == WordStep \/ WrapReturn
SpecWrap == InitWrap /\ [][NextWrap]_vars

Range(f) == {f[i] : i \in DOMAIN f}
Occurrences(f, x) == Cardinality({i \in DOMAIN f : f[i] = x})
TooWide(str) == TextWidth(str, bt_font_size) > max_width

\* C2: when every word fits max_width alone, no returned line is wider than
\* max_width; and a word wider than max_width makes a line of its own, once
\* for each time it occurs in the text.
C2_NoOverflow ==
  wrap_pc = "done" =>
    /\ (\A i \in DOMAIN words : ~TooWide(words[i])) =>
          \A j \in DOMAIN lines : ~TooWide(lines[j])
    /\ \A i \in DOMAIN words :
          TooWide(words[i]) =>
             Occurrences(lines, words[i]) = Occurrences(words, words[i])

\* A wrapped text of fitting words on two lines, and one with a word too wide.
C2_Witness ==
  /\ wrap_pc = "done"
  /\ \/ /\ \A i \in DOMAIN words : ~TooWide(words[i])
        /\ Len(lines) >= 2 /\ Len(words) >= 3
     \/ /\ \E i \in DOMAIN words : TooWide(words[i])
        /\ \E i \in DOMAIN words : ~TooWide(words[i]) /\ words[i] # <<>>

\* ------------------------------------------------------- frames and pixels
\* The times a frame is asked for.
Times == {0, 1}

RECURSIVE GCD(_, _)
GCD(a, b) == IF b = 0 THEN a ELSE GCD(b, a % b)
\* A float is kept as a fraction <<n, d>> in lowest terms, n >= 0, d > 0.
Rat(n, d) == LET g == GCD(n, d) IN <<n \div g, d \div g>>
RMul(a, b) == Rat(a[1] * b[1], a[2] * b[2])
RSub(a, b) == Rat(a[1] * b[2] - b[1] * a[2], a[2] * b[2])
One == <<1, 1>>
Zero == <<0, 1>>
Half == <<1, 2>>
\* astype("uint8") of a float in 0..255: the fraction is cut off.
ToUint8(a) == (a[1] \div a[2]) % 256

\* A numpy array of shape (h, w) when ch = 0, and (h, w, ch) otherwise; px
\* gives the value at each (row, column): a float when ch = 0, ch integers
\* otherwise.
Array(h, w, ch, px) == [h |-> h, w |-> w, ch |-> ch, px |-> px]
Cells(h, w) == (1..h) \X (1..w)
Uniform(h, w, ch, v) == Array(h, w, ch, [q \in Cells(h, w) |-> v])
\* frame.shape[:2][::-1]
FrameSize(fr) == <<fr.w, fr.h>>
\* frame.shape[:2]
FrameShape2(fr) == <<fr.h, fr.w>>

Red == <<255, 0, 0>>
Green == <<0, 255, 0>>
Grey == <<128, 64, 0>>

\* The frame functions given by callers: one of constant size whose picture
\* changes with t, one whose width grows with t.
SteadyFrames ==
  [t \in Times |->
     Array(1, 2, 3, [q \in Cells(1, 2) |-> IF q[2] = 1 + t THEN Red ELSE Grey])]
GrowingFrames == [t \in Times |-> Uniform(1, 1 + t, 3, Green)]

\* The image functions given to image_transform.  A function is a record
\* naming what it does to a picture.
\* lambda pic: opacity * pic
MulFunc(k) == [kind |-> "mul", k |-> k]
\* lambda pic: 1.0 * pic[:, :, canal] / 255
ChannelFunc(canal) == [kind |-> "channel", canal |-> canal]
\* lambda pic: np.dstack(3 * [255 * pic]).astype("uint8")
RGBFunc == [kind |-> "rgb"]
\* A caller's function that swaps rows and columns.
TransposeFunc == [kind |-> "transpose"]

ApplyImageFunc(f, fr) ==
  CASE f.kind = "mul" /\ fr.ch = 0 ->
         Array(fr.h, fr.w, 0, [q \in Cells(fr.h, fr.w) |-> RMul(f.k, fr.px[q])])
    [] f.kind = "channel" /\ fr.ch > 0 ->
         Array(fr.h, fr.w, 0,
               [q \in Cells(fr.h, fr.w) |-> Rat(fr.px[q][f.canal + 1], 255)])
    [] f.kind = "rgb" /\ fr.ch = 0 ->
         Array(fr.h, fr.w, 3,
               [q \in Cells(fr.h, fr.w) |->
                  LET v == ToUint8(RMul(<<255, 1>>, fr.px[q])) IN <<v, v, v>>])
    [] f.kind = "transpose" ->
         Array(fr.w, fr.h, fr.ch,
               [q \in Cells(fr.w, fr.h) |-> fr.px[<<q[2], q[1]>>]])

\* A position is a pair of components, each a number (a float) or one of the
\* names left, center, right, top, bottom; or, in short, one name for both.
Px(r) == [name |-> "", val |-> r]
Anchor(s) == [name |-> s, val |-> Zero]
IsStr(comp) == comp.name # ""
PosPair(x, y) == [short |-> "", xy |-> <<x, y>>]
PosShort(s) == [short |-> s, xy |-> <<Anchor(s), Anchor(s)>>]
\* lambda t: (0, 0)
Origin == PosPair(Px(Zero), Px(Zero))

\* ------------------------------------------------------------ clip objects
\* The heap is the sequence of the objects made so far; an object's id is its
\* index.  mask and audio hold None or Some(id).
IsClip(o) == o.cls \in {"VideoClip", "ImageClip", "ColorClip"}
ClipIds(h) == {i \in DOMAIN h : IsClip(h[i])}
AudioIds(h) == {i \in DOMAIN h : h[i].cls = "AudioClip"}

\* An audio clip, opaque but for its samples and duration.
AudioClipObj(d) ==
  [cls |-> "AudioClip", make_frame |-> [t \in Times |-> 7 + t], duration |-> d,
   start |-> 0, end |-> d]

\* clip.get_frame(t)
get_frame(o, t) == o.make_frame[t]

\* VideoClip.__init__, lines 96-112, after Clip.__init__ (start 0, end and
\* duration None).
VideoClipInit(make_frame, is_mask, duration, has_constant_size) ==
  [cls |-> "VideoClip", start |-> 0, end |-> duration, duration |-> duration,
   mask |-> None, audio |-> None,
   pos |-> [t \in Times |-> Origin], relative_pos |-> FALSE, layer |-> 0,
   make_frame |-> make_frame, size |-> FrameSize(make_frame[0]),
   is_mask |-> is_mask, has_constant_size |-> has_constant_size,
   img |-> None]

\* The body of ImageClip.__init__ once img is an array, lines 1030-1046: the
\* picture kept, and the alpha layer that becomes the mask (None when none).
ImagePicture(img, is_mask, transparent, fromalpha) ==
  IF img.ch = 4 /\ fromalpha THEN ApplyImageFunc(ChannelFunc(3), img)
  ELSE IF img.ch \in {3, 4} /\ is_mask THEN ApplyImageFunc(ChannelFunc(0), img)
  ELSE IF img.ch = 4 /\ transparent
    THEN Array(img.h, img.w, 3,
               [q \in Cells(img.h, img.w) |-> SubSeq(img.px[q], 1, 3)])
  ELSE img
ImageAlpha(img, is_mask, transparent, fromalpha) ==
  IF img.ch = 4 /\ ~fromalpha /\ ~is_mask /\ transparent
    THEN Some(ApplyImageFunc(ChannelFunc(3), img))
    ELSE None

\* An ImageClip without the mask ImageClip.__init__ may attach.
StaticClip(cls, pic, is_mask, duration) ==
  [cls |-> cls, start |-> 0, end |-> duration, duration |-> duration,
   mask |-> None, audio |-> None,
   pos |-> [t \in Times |-> Origin], relative_pos |-> FALSE, layer |-> 0,
   make_frame |-> [t \in Times |-> pic], size |-> FrameSize(pic),
   is_mask |-> is_mask, has_constant_size |-> TRUE,
   img |-> Some(pic)]

\* ImageClip(img, is_mask, transparent, fromalpha, duration), lines 1021-1046,
\* on heap h: the heap with the new clip (and its mask), and the clip's id.
ImageClipInit(h, cls, img, is_mask, transparent, fromalpha, duration) ==
  LET pic == ImagePicture(img, is_mask, transparent, fromalpha)
      alpha == ImageAlpha(img, is_mask, transparent, fromalpha)
      clip == StaticClip(cls, pic, is_mask, duration)
  IN IF IsNone(alpha)
       THEN [heap |-> Append(h, clip), id |-> Len(h) + 1]
       ELSE [heap |-> h \o <<StaticClip("ImageClip", Val(alpha), TRUE, None),
                               [clip EXCEPT !.mask = Some(Len(h) + 1)]>>,
             id |-> Len(h) + 2]

\* The color a ColorClip is filled with, lines 1126-1141.
DefaultColor(color, is_mask) ==
  IF ~IsNone(color) THEN Val(color) ELSE IF is_mask THEN Zero ELSE <<0, 0, 0>>

\* ColorClip(size, color, is_mask, duration), lines 1123-1145.
ColorClipInit(h, size, color, is_mask, duration) ==
  LET c == DefaultColor(color, is_mask)
      img == Uniform(size[2], size[1], IF is_mask THEN 0 ELSE Len(c), c)
  IN ImageClipInit(h, "ColorClip", img, is_mask, TRUE, FALSE, duration)

\* VideoClip.__copy__, lines 136-156: a new object with the receiver's
\* attribute values, but for mask and audio, which are copies in turn
\* (copy.copy of a clip is its __copy__; of an audio clip, a new object with
\* the same attributes).  Gives the new heap and the copy's id.
RECURSIVE copy(_, _)
copy_SharedMask(h, c) == [heap |-> Append(h, h[c]), id |-> Len(h) + 1]
copy(h, c) ==
  LET o == h[c] IN
  IF ~IsClip(o) THEN [heap |-> Append(h, o), id |-> Len(h) + 1]
  ELSE
    LET m == IF IsNone(o.mask) THEN [heap |-> h, ref |-> None]
             ELSE LET r == copy(h, Val(o.mask))
                  IN [heap |-> r.heap, ref |-> Some(r.id)]
        a == IF IsNone(o.audio) THEN [heap |-> m.heap, ref |-> None]
             ELSE LET r == copy(m.heap, Val(o.audio))
                  IN [heap |-> r.heap, ref |-> Some(r.id)]
    IN [heap |-> Append(a.heap, [o EXCEPT !.mask = m.ref, !.audio = a.ref]),
        id |-> Len(a.heap) + 1]

\* What a finished call leaves of the objects it made: those its result still
\* reaches; the others are dropped when their last reference goes.  base is
\* the heap's length before the call; older objects keep their ids.
RECURSIVE Reach(_, _)
Reach(h, i) ==
  {i} \cup (IF IsClip(h[i])
              THEN (IF IsNone(h[i].mask) THEN {} ELSE Reach(h, Val(h[i].mask)))
                   \cup (IF IsNone(h[i].audio) THEN {} ELSE {Val(h[i].audio)})
              ELSE {})
Collect(base, r) ==
  LET h == r.heap
      keep == (1..base) \cup Reach(h, r.id)
      NewId(i) == Cardinality({j \in keep : j <= i})
      Ref(x) == IF IsNone(x) THEN None ELSE Some(NewId(Val(x)))
      Moved(o) == IF IsClip(o)
                    THEN [o EXCEPT !.mask = Ref(o.mask), !.audio = Ref(o.audio)]
                    ELSE o
      OldId(k) == CHOOSE i \in keep : NewId(i) = k
  IN [heap |-> [k \in 1..Cardinality(keep) |-> Moved(h[OldId(k)])],
      id |-> NewId(r.id)]

\* ------------------------------------------------------ clip operations
\* Every operation takes the heap and the receiver's id and gives the heap
\* after the call and the id of the clip returned.  Frame functions are kept
\* as tables over Times: a closure over a clip's get_frame gives the same
\* frames as its table as long as no attribute of that clip is assigned
\* afterwards.
Result(h, i) == [heap |-> h, id |-> i]
\* The object r.id of r.heap replaced by o.
Put(r, o) == Result([r.heap EXCEPT ![r.id] = o], r.id)

\* self inside a method body that runs on the clip r.id of r.heap.
Self(r) == r.heap[r.id]
\* setattr(clip, "mask", new_a) and setattr(clip, "audio", new_a) on the clip
\* r.id, where a is the call that made new_a.
MaskOf(r) == Self(r).mask
AudioOf(r) == Self(r).audio
SetMask(r, a) == Result([a.heap EXCEPT ![r.id].mask = Some(a.id)], r.id)
SetAudio(r, a) == Result([a.heap EXCEPT ![r.id].audio = Some(a.id)], r.id)

\* The decorator outplace: the method's body runs on a copy of the receiver,
\* made by copy(), and that copy is returned.
outplace(h, c) == copy(h, c)

\* with_make_frame without the assignment to self.size.
with_make_frame_KeepSize(h, c, mf) ==
  LET Body(r) == Put(r, [Self(r) EXCEPT !.make_frame = mf])
  IN Body(outplace(h, c))

\* @outplace def with_make_frame(self, mf), lines 721-729.
with_make_frame(h, c, mf) ==
  LET Body(r) == Put(r, [Self(r) EXCEPT !.make_frame = mf,
                                        !.size = FrameSize(mf[0])])
  IN Body(outplace(h, c))

\* @outplace def with_audio(self, audioclip), lines 731-738.
with_audio(h, c, audioclip) ==
  LET Body(r) == Put(r, [Self(r) EXCEPT !.audio = Some(audioclip)])
  IN Body(outplace(h, c))

\* @outplace def without_audio(self), lines 840-846.
without_audio(h, c) ==
  LET Body(r) == Put(r, [Self(r) EXCEPT !.audio = None])
  IN Body(outplace(h, c))

\* No assertion: every clip is taken as a mask.
MaskAccepted_Any(h, mask) == TRUE
\* assert mask is None or mask.is_mask, line 747.
MaskAccepted(h, mask) == IF IsNone(mask) THEN TRUE ELSE h[Val(mask)].is_mask

\* @outplace def with_mask(self, mask), lines 740-748, when the assertion
\* holds.
with_mask(h, c, mask) ==
  LET Body(r) == Put(r, [Self(r) EXCEPT !.mask = mask])
  IN Body(outplace(h, c))

\* Clip.with_duration on a clip with no mask and no audio: a copy with
\* duration set and end = start + duration.
with_duration(h, c, d) ==
  LET Body(r) ==
        Put(r, [Self(r) EXCEPT !.duration = d,
                               !.end = IF IsNone(d) THEN None
                                       ELSE Some(Self(r).start + Val(d))])
  IN Body(outplace(h, c))

\* The default mask of with_add_mask, lines 657-665: the heap with the mask
\* clip made, and its id.
DefaultMask_Static(h, c) ==
  ColorClipInit(h, h[c].size, Some(One), TRUE, None)
DefaultMask(h, c) ==
  IF h[c].has_constant_size
    THEN ColorClipInit(h, h[c].size, Some(One), TRUE, None)
    ELSE LET Ones(sh) == Uniform(sh[1], sh[2], 0, One)
             make_frame == [t \in Times |-> Ones(FrameShape2(get_frame(h[c], t)))]
         IN Result(Append(h, VideoClipInit(make_frame, TRUE, None, TRUE)),
                   Len(h) + 1)

\* def with_add_mask(self), lines 647-666.
with_add_mask(h, c) ==
  LET Lasting(m) == with_duration(m.heap, m.id, h[c].duration)
      Attached(md) == with_mask(md.heap, c, Some(md.id))
  IN Attached(Lasting(DefaultMask(h, c)))

RECURSIVE transform_image(_, _, _, _)
RECURSIVE image_transform(_, _, _, _)

\* Clip.transform with func = lambda get_frame, t: image_func(get_frame(t))
\* and keep_duration True: with_make_frame, then the same on each attribute
\* named in apply_to; for an ImageClip, ImageClip.transform (lines 1048-1062)
\* makes the result a VideoClip.
transform_image(h, c, f, apply_to) ==
  LET mf == [t \in Times |-> ApplyImageFunc(f, get_frame(h[c], t))]
      Attrs(r) ==
        IF "mask" \in apply_to /\ ~IsNone(MaskOf(r))
          THEN SetMask(r, transform_image(r.heap, Val(MaskOf(r)), f, {}))
          ELSE r
      Classed(r) ==
        IF h[c].cls = "VideoClip" THEN r
        ELSE Result([r.heap EXCEPT ![r.id].cls = "VideoClip"], r.id)
  IN Classed(Attrs(with_make_frame(h, c, mf)))

\* VideoClip.image_transform, lines 552-557, and ImageClip.image_transform,
\* lines 1064-1083, by the receiver's class.
image_transform(h, c, f, apply_to) ==
  IF h[c].cls = "VideoClip" THEN transform_image(h, c, f, apply_to)
  ELSE
    LET Kept(o, arr) == [o EXCEPT !.size = FrameSize(arr),
                                  !.make_frame = [t \in Times |-> arr],
                                  !.img = Some(arr)]
        Body(r) == Put(r, Kept(Self(r), ApplyImageFunc(f, get_frame(Self(r), 0))))
        Attrs(n) ==
          IF "mask" \in apply_to /\ ~IsNone(MaskOf(n))
            THEN SetMask(n, image_transform(n.heap, Val(MaskOf(n)), f, {}))
            ELSE n
    IN Attrs(Body(outplace(h, c)))

\* The decorator add_mask_if_none: the method is called on
\* self.with_add_mask() when the receiver has no mask.
add_mask_if_none(h, c) ==
  IF IsNone(h[c].mask) THEN with_add_mask(h, c) ELSE Result(h, c)

\* with_opacity without the multiplication: the mask is kept as it is.
with_opacity_NoScale(h, c, opacity) ==
  LET Copied(w) == outplace(w.heap, w.id)
  IN Copied(add_mask_if_none(h, c))

\* @add_mask_if_none @outplace def with_opacity(self, opacity), lines 750-758.
with_opacity(h, c, opacity) ==
  LET Body(r) ==
        SetMask(r, image_transform(r.heap, Val(MaskOf(r)), MulFunc(opacity), {}))
      Copied(w) == Body(outplace(w.heap, w.id))
  IN Copied(add_mask_if_none(h, c))

\* @outplace def with_position(self, pos, relative), lines 760-790, before
\* apply_to_mask.
with_position_outplace(h, c, pos, relative) ==
  LET Body(r) == Put(r, [Self(r) EXCEPT !.relative_pos = relative,
                                        !.pos = [t \in Times |-> pos]])
  IN Body(outplace(h, c))
\* @apply_to_mask around it: the method on the clip, then on the new clip's
\* mask when it has one.
with_position(h, c, pos, relative) ==
  LET Masked(n) ==
        IF IsNone(MaskOf(n)) THEN n
        ELSE SetMask(n, with_position_outplace(n.heap, Val(MaskOf(n)), pos, relative))
  IN Masked(with_position_outplace(h, c, pos, relative))

\* @outplace def with_layer(self, layer), lines 792-800, before apply_to_mask.
with_layer_outplace(h, c, layer) ==
  LET Body(r) == Put(r, [Self(r) EXCEPT !.layer = layer])
  IN Body(outplace(h, c))
\* @apply_to_mask around it.
with_layer(h, c, layer) ==
  LET Masked(n) ==
        IF IsNone(MaskOf(n)) THEN n
        ELSE SetMask(n, with_layer_outplace(n.heap, Val(MaskOf(n)), layer))
  IN Masked(with_layer_outplace(h, c, layer))

RECURSIVE time_transform(_, _, _, _)
\* Clip.time_transform (keep_duration False) for a VideoClip or an audio
\* clip, and ImageClip.time_transform, lines 1085-1101, for a static clip.
time_transform(h, c, time_func, apply_to) ==
  IF h[c].cls \in {"VideoClip", "AudioClip"}
    THEN LET Timed(o, mf) ==
               IF IsClip(o)
                 THEN [o EXCEPT !.make_frame = mf, !.size = FrameSize(mf[0]),
                                !.duration = None, !.end = None]
                 ELSE [o EXCEPT !.make_frame = mf,
                                !.duration = None, !.end = None]
             Body(r) ==
               Put(r, Timed(Self(r),
                            [t \in Times |-> Self(r).make_frame[time_func[t]]]))
         IN Body(outplace(h, c))
    ELSE
      LET Masked(r) ==
            IF "mask" \in apply_to /\ ~IsNone(MaskOf(r))
              THEN SetMask(r, time_transform(r.heap, Val(MaskOf(r)), time_func,
                                             {"mask", "audio"}))
              ELSE r
          Voiced(r) ==
            IF "audio" \in apply_to /\ ~IsNone(AudioOf(r))
              THEN SetAudio(r, time_transform(r.heap, Val(AudioOf(r)), time_func, {}))
              ELSE r
      IN Voiced(Masked(outplace(h, c)))

\* is_mask set on the clip a call returned.
Marked(r, is_mask) == Result([r.heap EXCEPT ![r.id].is_mask = is_mask], r.id)

\* def to_mask(self, canal=0), lines 817-824.
to_mask_InPlace(h, c, canal) ==
  IF h[c].is_mask THEN Result(h, c)
  ELSE Result([h EXCEPT ![c].is_mask = TRUE,
                        ![c].make_frame =
                           [t \in Times |->
                              ApplyImageFunc(ChannelFunc(canal), h[c].make_frame[t])]],
              c)
to_mask(h, c, canal) ==
  IF h[c].is_mask THEN Result(h, c)
  ELSE Marked(image_transform(h, c, ChannelFunc(canal), {}), TRUE)

\* to_RGB without the assignment to is_mask.
to_RGB_KeepMask(h, c) ==
  IF h[c].is_mask THEN image_transform(h, c, RGBFunc, {}) ELSE Result(h, c)

\* def to_RGB(self), lines 826-835.
to_RGB(h, c) ==
  IF h[c].is_mask THEN Marked(image_transform(h, c, RGBFunc, {}), FALSE)
  ELSE Result(h, c)

RECURSIVE transform(_, _, _, _, _)
\* Clip.transform with func = lambda get_frame, t: f(get_frame(time_func(t)))
\* and keep_duration True, and ImageClip.transform, lines 1048-1062, which
\* makes the result a VideoClip.
transform(h, c, f, time_func, apply_to) ==
  LET mf == [t \in Times |-> ApplyImageFunc(f, get_frame(h[c], time_func[t]))]
      Attrs(r) ==
        IF "mask" \in apply_to /\ ~IsNone(MaskOf(r))
          THEN SetMask(r, transform(r.heap, Val(MaskOf(r)), f, time_func, {}))
          ELSE r
      Classed(r) ==
        IF h[c].cls = "VideoClip" THEN r
        ELSE Result([r.heap EXCEPT ![r.id].cls = "VideoClip"], r.id)
  IN Classed(Attrs(with_make_frame(h, c, mf)))

RECURSIVE to_ImageClip(_, _, _, _, _)
\* def to_ImageClip(self, t=0, with_mask=True, duration=None), lines 805-815.
to_ImageClip(h, c, t, withmask, duration) ==
  LET Masked(r) ==
        IF withmask /\ ~IsNone(h[c].mask)
          THEN SetMask(r, to_ImageClip(r.heap, Val(h[c].mask), t, TRUE, None))
          ELSE r
  IN Masked(ImageClipInit(h, "ImageClip", get_frame(h[c], t), h[c].is_mask,
                          TRUE, FALSE, duration))

\* ------------------------------------------------- the caller's clips
\* A picture with an alpha layer, for ImageClip.
AlphaPicture ==
  Array(1, 2, 4, [q \in Cells(1, 2) |-> IF q[2] = 1 THEN <<255, 0, 0, 255>>
                                         ELSE <<0, 0, 255, 51>>])

\* The clips a caller starts from: a clip from one of the constructors, with
\* or without a default mask, with or without the audio clip 1.
BaseClips ==
  LET h0 == <<AudioClipObj(Some(2))>> IN
    {Result(Append(h0, VideoClipInit(SteadyFrames, FALSE, None, TRUE)), 2)}
    \cup {Result(Append(h0, VideoClipInit(GrowingFrames, FALSE, Some(2), FALSE)), 2)}
    \cup {ColorClipInit(h0, <<2, 1>>, Some(Red), FALSE, Some(2))}
    \cup {ImageClipInit(h0, "ImageClip", AlphaPicture, FALSE, TRUE, FALSE, None)}
StartClips ==
  LET Masked == BaseClips \cup {Collect(1, with_add_mask(r.heap, r.id)) :
                                  r \in BaseClips}
  IN Masked \cup {Collect(1, with_audio(r.heap, r.id, 1)) : r \in Masked}

ClipStart ==
  /\ \E r \in StartClips : heap = r.heap /\ ret = r.id
  /\ op = "init" /\ recv = 0 /\ calls = 0 /\ copies = {}

\* The clips a call can be made on: the clip the caller holds and its mask.
Receivers ==
  {ret} \cup (IF IsNone(heap[ret].mask) THEN {} ELSE {Val(heap[ret].mask)})
\* The mask clips at hand, to give to with_mask.
Masks == {i \in ClipIds(heap) : heap[i].is_mask}

\* A call on receiver c that returned r: the objects it leaves are added to
\* the heap.
Returns(name, c, r) ==
  LET k == Collect(Len(heap), r) IN
    /\ calls < MaxCalls
    /\ calls' = calls + 1
    /\ heap' = k.heap
    /\ ret' = k.id
    /\ recv' = c
    /\ op' = name
    /\ UNCHANGED <<copies, notClip>>
\* An assignment to attributes of objects the caller reaches from the clip
\* it holds: h is the heap after it.
Assigns(name, h) ==
  /\ calls < MaxCalls
  /\ calls' = calls + 1
  /\ heap' = h
  /\ op' = name
  /\ recv' = ret
  /\ UNCHANGED <<ret, copies, notClip>>
\* A call on receiver c that raised: nothing is returned and the objects made
\* on the way are dropped.
Raises(c) ==
  /\ calls < MaxCalls
  /\ calls' = calls + 1
  /\ op' = "raised"
  /\ recv' = c
  /\ UNCHANGED <<heap, ret, copies, notClip>>

\* The frame functions a caller gives a clip: RGB frames for a video clip,
\* float frames for a mask.
HalfFrames == [t \in Times |-> Uniform(1, 1 + t, 0, Half)]
FrameFnsFor(is_mask) == IF is_mask THEN {HalfFrames} ELSE {GrowingFrames}
Reverse == [t \in Times |-> 1 - t]

Do_with_make_frame ==
  \E c \in Receivers : \E mf \in FrameFnsFor(heap[c].is_mask) :
    Returns("with_make_frame", c, with_make_frame(heap, c, mf))
Do_with_audio ==
  \E c \in Receivers : \E a \in AudioIds(heap) :
    Returns("with_audio", c, with_audio(heap, c, a))
Do_without_audio ==
  \E c \in Receivers : Returns("without_audio", c, without_audio(heap, c))
Do_with_mask ==
  \E c \in Receivers : \E m \in {None} \cup {Some(i) : i \in Masks} :
    /\ MaskAccepted(heap, m)
    /\ Returns("with_mask", c, with_mask(heap, c, m))
\* with_mask with a clip that is no mask: the assertion of line 747 fails and
\* no clip is returned.
Do_with_mask_rejected ==
  \E c \in Receivers : \E m \in {Some(i) : i \in ClipIds(heap) \ Masks} :
    /\ ~MaskAccepted(heap, m)
    /\ Raises(c)
Do_with_add_mask ==
  \E c \in Receivers : Returns("with_add_mask", c, with_add_mask(heap, c))
Do_with_opacity ==
  \E c \in Receivers : \E opacity \in {Half} :
    Returns("with_opacity", c, with_opacity(heap, c, opacity))
Do_with_position ==
  \E c \in Receivers :
    \E pr \in {<<PosPair(Anchor("center"), Anchor("center")), FALSE>>,
               <<PosPair(Px(Half), Px(Zero)), TRUE>>} :
      Returns("with_position", c, with_position(heap, c, pr[1], pr[2]))
Do_with_layer ==
  \E c \in Receivers : \E layer \in {1} :
    Returns("with_layer", c, with_layer(heap, c, layer))
Do_image_transform ==
  \E c \in Receivers : \E apply_to \in {{}, {"mask"}} :
    Returns("image_transform", c,
            image_transform(heap, c, TransposeFunc, apply_to))
Do_time_transform ==
  \E c \in Receivers :
    Returns("time_transform", c,
            time_transform(heap, c, Reverse,
                           IF heap[c].cls = "VideoClip" THEN {}
                           ELSE {"mask", "audio"}))
Do_to_mask ==
  \E c \in Receivers : \E canal \in {0, 1} :
    Returns("to_mask", c, to_mask(heap, c, canal))
Do_to_RGB ==
  \E c \in Receivers : Returns("to_RGB", c, to_RGB(heap, c))

InitOutplace == ClipStart /\ FontIdle /\ WrapIdle /\ BlitIdle /\ BitmapIdle
  /\ ChainIdle
  /\ TextClipIdle
  /\ UpdatedIdle
  /\ SequenceIdle
  /\ CallersIdle
  /\ LawIdle
NextOutplace ==
  \/ Do_with_make_frame \/ Do_with_audio \/ Do_without_audio \/ Do_with_mask
  \/ Do_with_mask_rejected \/ Do_with_add_mask \/ Do_with_opacity
  \/ Do_with_position \/ Do_with_layer \/ Do_image_transform
  \/ Do_time_transform \/ Do_to_mask \/ Do_to_RGB
SpecOutplace == InitOutplace /\ [][NextOutplace]_vars

\* ------------------------------------------------------------- outplace
\* The calls that give back their receiver: to_mask on a mask, to_RGB on a
\* clip that is no mask.
ReturnsSelf(name, o) ==
  \/ name = "to_mask" /\ o.is_mask
  \/ name = "to_RGB" /\ ~o.is_mask
\* No object of the heap has changed.
HeapKept == \A i \in DOMAIN heap : heap'[i] = heap[i]

\* C4 as stated: every call that returns gives a new clip and changes no
\* attribute of any clip there was.
C4_Original ==
  [][op' # "raised" => (ret' \notin DOMAIN heap /\ HeapKept)]_vars

\* C4 amended: every call that returns changes no attribute of any clip there
\* was, and gives a new clip, but to_mask on a mask and to_RGB on a clip that
\* is no mask, which give back the receiver itself.
C4_Outplace ==
  [][op' # "raised" =>
       /\ HeapKept
       /\ IF ReturnsSelf(op', heap[recv'])
            THEN ret' = recv'
            ELSE ret' \notin DOMAIN heap]_vars

\* with_opacity was called on a clip that has a mask and an audio clip.
C4_Witness ==
  /\ op = "with_opacity"
  /\ ~IsNone(heap[recv].mask) /\ ~IsNone(heap[recv].audio)
  /\ ret # recv /\ heap[ret].mask # heap[recv].mask

\* ---------------------------------------------------------- with_add_mask
AllOnes(fr, h, w) ==
  /\ fr.h = h /\ fr.w = w /\ fr.ch = 0
  /\ \A q \in Cells(h, w) : fr.px[q] = One

\* C10: the clip with_add_mask returns has a mask with is_mask true and the
\* receiver's duration; for a receiver of constant size the mask is a static
\* clip of the receiver's size that is 1.0 everywhere, otherwise its frame at
\* each t is all ones with the height and width of the receiver's frame at t;
\* and the receiver keeps the mask it had.
C10_DefaultMask ==
  [][op' = "with_add_mask" =>
       LET o == heap[recv']
           m == heap'[Val(heap'[ret'].mask)]
       IN /\ ~IsNone(heap'[ret'].mask)
          /\ m.is_mask
          /\ m.duration = o.duration
          /\ IF o.has_constant_size
               THEN /\ m.cls \in {"ImageClip", "ColorClip"}
                    /\ m.size = o.size
                    /\ ~IsNone(m.img)
                    /\ \A t \in Times :
                         AllOnes(get_frame(m, t), o.size[2], o.size[1])
               ELSE \A t \in Times :
                      AllOnes(get_frame(m, t), get_frame(o, t).h,
                              get_frame(o, t).w)
          /\ heap'[recv'] = o
          /\ ret' # recv']_vars

\* with_add_mask was called on a clip whose size changes with t, and on a
\* clip of constant size that had a mask already.
C10_Witness ==
  /\ op = "with_add_mask"
  /\ \/ ~heap[recv].has_constant_size
     \/ heap[recv].has_constant_size /\ ~IsNone(heap[recv].mask)
  /\ get_frame(heap[recv], 1).w = 2

\* ------------------------------------------------------------------ copy
\* What copy() found: the original, its copy, and the original's attributes,
\* mask and audio as they were.
Part(h, ref) == IF IsNone(ref) THEN None ELSE Some(h[Val(ref)])
Snapshot(h, orig, cp) ==
  [orig |-> orig, cp |-> cp, obj |-> h[orig],
   mask |-> Part(h, h[orig].mask), audio |-> Part(h, h[orig].audio)]

Do_copy ==
  \E c \in Receivers :
    LET k == Collect(Len(heap), copy(heap, c)) IN
      /\ calls < MaxCalls
      /\ calls' = calls + 1
      /\ heap' = k.heap
      /\ ret' = k.id
      /\ recv' = c
      /\ op' = "copy"
      /\ copies' = copies \cup {Snapshot(heap, c, k.id)}
      /\ UNCHANGED notClip

\* The caller's assignments on the clip it holds.
\* clip.mask = a new mask clip, or None.
Set_mask ==
  \/ Assigns("set_mask", [heap EXCEPT ![ret].mask = None])
  \/ LET m == ColorClipInit(heap, heap[ret].size, Some(Half), TRUE, None)
     IN Assigns("set_mask", [m.heap EXCEPT ![ret].mask = Some(m.id)])
\* clip.mask.make_frame = the mask's frames times an opacity.
Set_mask_opacity ==
  /\ ~IsNone(heap[ret].mask)
  /\ LET m == Val(heap[ret].mask)
         mf == [t \in Times |-> ApplyImageFunc(MulFunc(Half), get_frame(heap[m], t))]
     IN Assigns("set_mask_opacity", [heap EXCEPT ![m].make_frame = mf])
\* clip.audio = None, and clip.audio.make_frame = other samples.
Set_audio ==
  /\ ~IsNone(heap[ret].audio)
  /\ \/ Assigns("set_audio", [heap EXCEPT ![ret].audio = None])
     \/ LET a == Val(heap[ret].audio)
        IN Assigns("set_audio",
                   [heap EXCEPT ![a].make_frame = [t \in Times |-> 0]])

InitCopy == ClipStart /\ FontIdle /\ WrapIdle /\ BlitIdle /\ BitmapIdle
  /\ ChainIdle
  /\ TextClipIdle
  /\ UpdatedIdle
  /\ SequenceIdle
  /\ CallersIdle
  /\ LawIdle
NextCopy ==
  \/ Do_copy \/ Set_mask \/ Set_mask_opacity \/ Set_audio
  \/ Do_with_add_mask
SpecCopy == InitCopy /\ [][NextCopy]_vars

\* The attributes of a clip other than mask and audio.
Plain(o) == [o EXCEPT !.mask = None, !.audio = None]
\* n is a copy of o apart: the same attribute values, and a mask and an audio
\* clip that are other objects with the same attribute values.
RECURSIVE CopyOf(_, _, _)
CopyOf(h, o, n) ==
  /\ Plain(n) = Plain(o)
  /\ IsNone(n.mask) = IsNone(o.mask)
  /\ IsNone(n.audio) = IsNone(o.audio)
  /\ IF IsNone(o.mask) THEN TRUE
     ELSE /\ Val(n.mask) # Val(o.mask)
          /\ CopyOf(h, h[Val(o.mask)], h[Val(n.mask)])
  /\ IF IsNone(o.audio) THEN TRUE
     ELSE /\ Val(n.audio) # Val(o.audio)
          /\ h[Val(n.audio)] = h[Val(o.audio)]

\* C3: the clip copy() returns is another object with the receiver's
\* attribute values, its mask and audio being copies apart; and whatever is
\* then assigned to the copy, its mask or its audio, the original, its mask
\* and its audio stay as copy() found them.
C3_CopyApart ==
  /\ op = "copy" => ret # recv /\ CopyOf(heap, heap[recv], heap[ret])
  /\ \A s \in copies :
       /\ heap[s.orig] = s.obj
       /\ Part(heap, heap[s.orig].mask) = s.mask
       /\ Part(heap, heap[s.orig].audio) = s.audio

\* A copy of a clip with a mask and an audio clip had its mask's opacity
\* changed.
C3_Witness ==
  /\ op = "set_mask_opacity"
  /\ \E s \in copies :
       /\ s.cp = ret
       /\ ~IsNone(s.mask) /\ ~IsNone(s.audio)
       /\ heap[Val(heap[ret].mask)] # Val(s.mask)

\* ------------------------------------------------------------- blit_on
\* A PIL image is kept as the array it is made from: mode RGB with ch = 3,
\* mode L with ch = 0 and integer pixels; its size is (w, h).
\* get_frame(ct).astype("uint8"), then Image.fromarray, lines 590-591.
FrameImage(fr) ==
  Array(fr.h, fr.w, fr.ch,
        [q \in Cells(fr.h, fr.w) |->
           <<fr.px[q][1] % 256, fr.px[q][2] % 256, fr.px[q][3] % 256>>])
\* (mask.get_frame(ct) * 255).astype("uint8"), line 594, at one pixel.
MaskToUint8_Unscaled(v) == ToUint8(v)
MaskToUint8(v) == ToUint8(RMul(<<255, 1>>, v))
\* Image.fromarray(mask).convert("L"), line 595.
MaskImage(fr) ==
  Array(fr.h, fr.w, 0, [q \in Cells(fr.h, fr.w) |-> MaskToUint8(fr.px[q])])

\* bg_size, lines 598-601.
bg_size(im, mask) == <<Max(im.w, mask.w), Max(im.h, mask.h)>>
\* Image.new(mode, size, fill) with im pasted at (0, 0), lines 603-607.
Canvas(size, fill, im) ==
  Array(size[2], size[1], im.ch,
        [q \in Cells(size[2], size[1]) |->
           IF q[1] <= im.h /\ q[2] <= im.w THEN im.px[q] ELSE fill])
\* Lines 597-609: the image and the mask handed on.
Reconciled(im, mask) ==
  IF FrameSize(im) # FrameSize(mask)
    THEN [img |-> Canvas(bg_size(im, mask), <<0, 0, 0>>, im),
          mask |-> Some(Canvas(bg_size(im, mask), 0, mask))]
    ELSE [img |-> im, mask |-> Some(mask)]
\* Lines 589-612: im_img and im_mask of the clip c at clip time ct.
GetImages(h, c, ct) ==
  IF IsNone(h[c].mask)
    THEN [img |-> FrameImage(get_frame(h[c], ct)), mask |-> None]
    ELSE Reconciled(FrameImage(get_frame(h[c], ct)),
                    MaskImage(get_frame(h[Val(h[c].mask)], ct)))

\* The short writings of a position, lines 619-626.
ShortPos ==
  [center |-> <<Anchor("center"), Anchor("center")>>,
   left   |-> <<Anchor("left"), Anchor("center")>>,
   right  |-> <<Anchor("right"), Anchor("center")>>,
   top    |-> <<Anchor("center"), Anchor("top")>>,
   bottom |-> <<Anchor("center"), Anchor("bottom")>>]
\* Lines 618-628: pos as a list of two components.
PosList(pos) == IF pos.short # "" THEN ShortPos[pos.short] ELSE pos.xy
\* Lines 631-634: a numeric component of a relative position times the
\* picture's dimension.
Relative(comp, relative, dim) ==
  IF relative /\ ~IsStr(comp) THEN Px(<<dim * comp.val[1], comp.val[2]>>)
  ELSE comp
\* Lines 636-642: the named components looked up; a number is a fraction
\* <<n, d>> with d > 0.
D_x(wf, wi) == [left |-> <<0, 1>>, center |-> <<wf - wi, 2>>, right |-> <<wf - wi, 1>>]
D_y(hf, hi) == [top |-> <<0, 1>>, center |-> <<hf - hi, 2>>, bottom |-> <<hf - hi, 1>>]
Number_x(comp, wf, wi) == IF IsStr(comp) THEN D_x(wf, wi)[comp.name] ELSE comp.val
Number_y(comp, hf, hi) == IF IsStr(comp) THEN D_y(hf, hi)[comp.name] ELSE comp.val
\* Python's int() of a float: the fraction is cut off, towards zero.
int_Floor(r) == r[1] \div r[2]
int(r) == IF r[1] >= 0 THEN r[1] \div r[2] ELSE -((-r[1]) \div r[2])
\* Lines 613-644: the position handed to blit, for a picture of size sf and
\* an image of size si.
ResolvedPos(o, ct, sf, si) ==
  <<int(Number_x(Relative(PosList(o.pos[ct])[1], o.relative_pos, sf[1]), sf[1], si[1])),
    int(Number_y(Relative(PosList(o.pos[ct])[2], o.relative_pos, sf[2]), sf[2], si[2]))>>

\* PIL's paste through a mask of mode L, one channel of one pixel: the mask
\* value m weighs the pasted value src against the value dst under it,
\* divided by 255 with rounding.
Blend(src, dst, m) ==
  (((src * m + dst * (255 - m) + 128) \div 256) + (src * m + dst * (255 - m) + 128))
     \div 256
\* The pixel q of im2 after im2.paste(im1, pos, mask): the pixels of im1 that
\* fall outside im2 are dropped.
Pasted(im1, im2, pos, mask, q) ==
  LET s == <<q[1] - pos[2], q[2] - pos[1]>> IN
    IF s \notin Cells(im1.h, im1.w) THEN im2.px[q]
    ELSE IF IsNone(mask) THEN im1.px[s]
    ELSE <<Blend(im1.px[s][1], im2.px[q][1], Val(mask).px[s]),
           Blend(im1.px[s][2], im2.px[q][2], Val(mask).px[s]),
           Blend(im1.px[s][3], im2.px[q][3], Val(mask).px[s])>>
\* moviepy.video.tools.drawing.blit(im1, im2, pos, mask): im2.paste(im1, pos,
\* mask), and im2 is returned; None stands for the ValueError paste raises
\* when the mask's size is not the image's.
blit(im1, im2, pos, mask) ==
  IF (IF IsNone(mask) THEN FALSE ELSE FrameSize(Val(mask)) # FrameSize(im1))
    THEN None
    ELSE Some(Array(im2.h, im2.w, im2.ch,
                    [q \in Cells(im2.h, im2.w) |-> Pasted(im1, im2, pos, mask, q)]))

\* def blit_on(self, picture, t), lines 580-645.
blit_on(h, c, pic, t) ==
  LET Blit(ims) ==
        blit(ims.img, pic,
             ResolvedPos(h[c], t - h[c].start, FrameSize(pic), FrameSize(ims.img)),
             ims.mask)
  IN Blit(GetImages(h, c, t - h[c].start))

\* The clips blit_on is called on: frames of w x h pixels that tell their
\* rows, columns and times apart; no mask, a mask of any size that is 1.0
\* everywhere, or a mask of the frame's size that is 0.5 everywhere.
PaintedFrames(w, h) ==
  [t \in Times |->
     Array(h, w, 3, [q \in Cells(h, w) |-> <<200 + q[1], 100 + q[2], 50 + t>>])]
Sides == 1..MaxSide
MaskChoices(w, h) ==
  {None} \cup {Some([size |-> <<wm, hm>>, color |-> One]) : wm \in Sides, hm \in Sides}
         \cup {Some([size |-> <<w, h>>, color |-> Half])}
\* The positions given with with_position, and whether they are relative.
Positions ==
  {[pos |-> PosPair(Anchor("right"), Anchor("bottom")), relative |-> FALSE],
   [pos |-> PosPair(Anchor("center"), Anchor("center")), relative |-> FALSE],
   [pos |-> PosPair(Anchor("left"), Anchor("top")), relative |-> FALSE],
   [pos |-> PosShort("bottom"), relative |-> FALSE],
   [pos |-> PosPair(Px(<<1, 1>>), Px(<<-1, 1>>)), relative |-> FALSE],
   [pos |-> PosPair(Px(<<1, 1>>), Px(<<-1, 1>>)), relative |-> TRUE],
   [pos |-> PosPair(Px(<<1, 2>>), Px(<<0, 1>>)), relative |-> FALSE],
   [pos |-> PosPair(Px(<<1, 2>>), Px(<<0, 1>>)), relative |-> TRUE]}
\* The clip with its start, position and mask set, on a heap where the mask
\* clip, when there is one, is object 1.
BlitClip(w, h, m, p, st) ==
  LET Placed(o, mask) ==
        [o EXCEPT !.start = st, !.pos = [t \in Times |-> p.pos],
                  !.relative_pos = p.relative, !.mask = mask]
      clip == VideoClipInit(PaintedFrames(w, h), FALSE, None, TRUE)
  IN IF IsNone(m) THEN <<Placed(clip, None)>>
     ELSE Append(ColorClipInit(<<>>, Val(m).size, Some(Val(m).color), TRUE, None).heap,
                 Placed(clip, Some(1)))

BlitStart ==
  /\ \E w \in Sides, h \in Sides, p \in Positions, st \in {0, 1} :
       \E m \in MaskChoices(w, h) :
         /\ heap = BlitClip(w, h, m, p, st)
         /\ ret = Len(heap)
         /\ blit_t = 2 * st
  /\ \E wf \in 1..MaxPicture, hf \in 1..MaxPicture :
       picture = Some(Uniform(hf, wf, 3, <<1, 2, 3>>))
  /\ op = "init" /\ recv = 0 /\ calls = 0 /\ copies = {}
  /\ im_img = None /\ im_mask = None /\ blit_pos = <<>> /\ blit_ret = None
  /\ blit_pc = "start"

\* The time t itself, not shifted by the clip's start.
ct_Unshifted == blit_t
\* The clip time, line 587.
ct == blit_t - heap[ret].start

\* Lines 589-611: the frame and the mask frame are fetched and their sizes
\* reconciled.
Blit_images ==
  /\ blit_pc = "start"
  /\ LET Kept(ims) == im_img' = Some(ims.img) /\ im_mask' = ims.mask
     IN Kept(GetImages(heap, ret, ct))
  /\ blit_pc' = "images"
  /\ UNCHANGED <<picture, blit_t, blit_pos, blit_ret, clipVars, notBlit>>
\* Lines 612-644: the position is resolved.
Blit_position ==
  /\ blit_pc = "images"
  /\ blit_pos' = ResolvedPos(heap[ret], ct, FrameSize(Val(picture)),
                             FrameSize(Val(im_img)))
  /\ blit_pc' = "placed"
  /\ UNCHANGED <<picture, blit_t, im_img, im_mask, blit_ret, clipVars, notBlit>>
\* Line 645: blit, whose result is returned.
Blit_paste ==
  /\ blit_pc = "placed"
  /\ LET Returned(r) ==
           /\ blit_ret' = r
           /\ blit_pc' = IF IsNone(r) THEN "error" ELSE "done"
     IN Returned(blit(Val(im_img), Val(picture), blit_pos, im_mask))
  /\ UNCHANGED <<picture, blit_t, im_img, im_mask, blit_pos, clipVars, notBlit>>

InitBlit == BlitStart /\ FontIdle /\ WrapIdle /\ BitmapIdle
  /\ ChainIdle
  /\ TextClipIdle
  /\ UpdatedIdle
  /\ SequenceIdle
  /\ CallersIdle
  /\ LawIdle
NextBlit == Blit_images \/ Blit_position \/ Blit_paste
SpecBlit == InitBlit /\ [][NextBlit]_vars

\* ----------------------------------------------------- blit_on, claims
\* The frame and the mask frame of the clip at the clip time, the position
\* its pos gives, and the picture's size.
TheFrame == get_frame(heap[ret], ct)
TheMaskFrame == get_frame(heap[Val(heap[ret].mask)], ct)
ThePos == PosList(heap[ret].pos[ct])
Resolved == blit_pc \in {"placed", "done", "error"}
HasMask == ~IsNone(heap[ret].mask)

\* C5, as the spec states it: with pos = ("right", "bottom") the frame, of
\* W x H pixels, is placed with its top-left corner at (Wb - W, Hb - H) of
\* the picture of Wb x Hb pixels, whatever the size of the clip's mask.
C5_Original ==
  (Resolved /\ ThePos = <<Anchor("right"), Anchor("bottom")>>) =>
     blit_pos = <<Val(picture).w - TheFrame.w, Val(picture).h - TheFrame.h>>

\* d / 2 with the fraction cut off towards zero.
Trunc2(d) == IF d >= 0 THEN d \div 2 ELSE -((-d) \div 2)
Abs(d) == IF d >= 0 THEN d ELSE -d
C7_Reconciled ==
  (blit_pc \in {"images", "placed", "done", "error"} /\ HasMask) =>
     LET f == TheFrame
         m == TheMaskFrame
         im == Val(im_img)
         mk == Val(im_mask)
     IN /\ FrameSize(im) = FrameSize(mk)
        /\ blit_pc # "error"
        /\ FrameSize(f) # FrameSize(m) =>
             /\ im.w \in {f.w, m.w} /\ im.w >= f.w /\ im.w >= m.w
             /\ im.h \in {f.h, m.h} /\ im.h >= f.h /\ im.h >= m.h
             /\ \A q \in Cells(im.h, im.w) :
                  /\ im.px[q] = IF q \in Cells(f.h, f.w) THEN f.px[q] ELSE <<0, 0, 0>>
                  /\ mk.px[q] = IF q \in Cells(m.h, m.w) THEN MaskToUint8(m.px[q])
                                ELSE 0
\* A frame wider than its mask frame, and a mask frame higher than the frame,
\* were blitted.
C7_Witness ==
  /\ blit_pc = "done"
  /\ HasMask
  /\ TheFrame.w > TheMaskFrame.w
  /\ TheFrame.h < TheMaskFrame.h

\* The position lies within the picture.
InBounds ==
  /\ blit_pos[1] \in 0..(Val(picture).w - 1)
  /\ blit_pos[2] \in 0..(Val(picture).h - 1)
\* C8: for a clip without a mask and a position within the picture, blit_on
\* returns the raster it returns for the same clip with the mask
\* with_add_mask gives it: 1.0 everywhere, of the frame's shape.
C8_NoMaskAsOnes ==
  (blit_pc = "done" /\ ~HasMask /\ InBounds) =>
     LET Twin(w) == blit_on(w.heap, w.id, Val(picture), blit_t)
     IN blit_ret = Twin(with_add_mask(heap, ret))
\* A clip without a mask was blitted within the picture, and changed it.
C8_Witness ==
  /\ blit_pc = "done" /\ ~HasMask /\ InBounds
  /\ blit_ret # picture

\* ------------------------------------------------------------ BitmapClip
\* A float is kept as the number of units of 2^-FracBits it holds.
RECURSIVE Pow2(_)
Pow2(k) == IF k = 0 THEN 1 ELSE 2 * Pow2(k - 1)
Unit == Pow2(FracBits)
RECURSIVE BitLength(_)
BitLength(n) == IF n = 0 THEN 0 ELSE 1 + BitLength(n \div 2)
\* a / b rounded to the nearest integer, ties to the even one.
RoundHalfEven(a, b) ==
  IF 2 * (a % b) < b THEN a \div b
  ELSE IF 2 * (a % b) > b THEN (a \div b) + 1
  ELSE IF (a \div b) % 2 = 0 THEN a \div b
  ELSE (a \div b) + 1
\* n / d units rounded to a float.
RoundFloat(n, d) ==
  IF BitLength(n \div d) <= Precision THEN RoundHalfEven(n, d)
  ELSE RoundHalfEven(n, d * Pow2(BitLength(n \div d) - Precision))
         * Pow2(BitLength(n \div d) - Precision)
\* Python's x / y and x * y on floats, and float(n) of a small integer.
FloatDiv(x, y) == RoundFloat(x * Unit, y)
FloatMul(x, y) == RoundFloat(x * y, Unit)
FromInt(n) == n * Unit
\* The positive floats up to MaxSeconds.
Floats == {x \in 1..(MaxSeconds * Unit) : RoundFloat(x, 1) = x}

\* BitmapClip.DEFAULT_COLOR_DICT, lines 1423-1434.
DEFAULT_COLOR_DICT ==
  [R |-> <<255, 0, 0>>, G |-> <<0, 255, 0>>, B |-> <<0, 0, 255>>,
   O |-> <<0, 0, 0>>, W |-> <<255, 255, 255>>, A |-> <<89, 225, 62>>,
   C |-> <<113, 157, 108>>, D |-> <<215, 182, 143>>, E |-> <<57, 26, 252>>,
   F |-> <<225, 135, 33>>]
Letters == <<"R", "G", "B", "O", "W", "A", "C", "D", "E", "F">>
\* Lines 1493-1498: a frame, a list of rows of letters, as an array.
DecodeFrame(input_frame) ==
  Array(Len(input_frame), Len(input_frame[1]), 3,
        [q \in Cells(Len(input_frame), Len(input_frame[1])) |->
           DEFAULT_COLOR_DICT[input_frame[q[1]][q[2]]]])
\* frame_array, line 1500.
frame_array == [i \in DOMAIN bitmap_frames |-> DecodeFrame(bitmap_frames[i])]

\* The arguments of BitmapClip(bitmap_frames, fps=..., duration=...): n frames
\* of one pixel, each of another color; fps alone, duration alone, or fps with
\* a duration of one second.
BitmapStart ==
  /\ \E n \in 1..MaxFrames : bitmap_frames = [i \in 1..n |-> <<<<Letters[i]>>>>]
  /\ \/ fps_arg = None /\ \E d \in Floats : duration_arg = Some(d)
     \/ /\ \E f \in Floats : fps_arg = Some(f)
        /\ duration_arg \in {None, Some(FromInt(1))}
  /\ bm_total_frames = 0 /\ bm_fps = None /\ bm_duration = None
  /\ frame_t = 0 /\ frame_index = 0 /\ frame_ret = None
  /\ bitmap_pc = "new"

\* BitmapClip.__init__, lines 1490-1516.
Bitmap_init ==
  /\ bitmap_pc = "new"
  /\ bm_total_frames' = Len(frame_array)
  /\ IF IsNone(fps_arg)
       THEN /\ bm_fps' = Some(FloatDiv(FromInt(Len(frame_array)), Val(duration_arg)))
            /\ bm_duration' = duration_arg
       ELSE /\ bm_duration' = Some(FloatDiv(FromInt(Len(frame_array)), Val(fps_arg)))
            /\ bm_fps' = fps_arg
  /\ bitmap_pc' = "made"
  /\ UNCHANGED <<bitmap_frames, fps_arg, duration_arg, frame_t, frame_index,
                 frame_ret, notBitmap>>

\* make_frame, line 1511: frame_array[int(t * fps)], for a t with
\* 0 <= t < duration; an index past the last frame raises IndexError.
Bitmap_get_frame ==
  /\ bitmap_pc = "made"
  /\ \E t \in {0} \cup Floats :
       /\ t < Val(bm_duration)
       /\ frame_t' = t
       /\ frame_index' = int(<<FloatMul(t, Val(bm_fps)), Unit>>)
  /\ IF frame_index' < Len(frame_array)
       THEN frame_ret' = Some(frame_array[frame_index' + 1]) /\ bitmap_pc' = "got"
       ELSE frame_ret' = None /\ bitmap_pc' = "raised"
  /\ UNCHANGED <<bitmap_frames, fps_arg, duration_arg, bm_total_frames, bm_fps,
                 bm_duration, notBitmap>>

InitBitmap == BitmapStart /\ FontIdle /\ WrapIdle /\ ClipIdle /\ BlitIdle
  /\ ChainIdle
  /\ TextClipIdle
  /\ UpdatedIdle
  /\ SequenceIdle
  /\ CallersIdle
  /\ LawIdle
NextBitmap == Bitmap_init \/ Bitmap_get_frame
SpecBitmap == InitBitmap /\ [][NextBitmap]_vars

\* C9, as the spec states it: with N frames, duration is N / fps when fps is
\* given, whatever duration is given, and fps is N / duration when only
\* duration is given; and for every t with 0 <= t < duration, get_frame(t)
\* is the decoded frame number floor(fps * t), an index in 0..N-1.
C9_Original ==
  bitmap_pc \in {"made", "got", "raised"} =>
    /\ bm_total_frames = Len(bitmap_frames)
    /\ IF IsNone(fps_arg)
         THEN bm_fps = Some(FloatDiv(FromInt(bm_total_frames), Val(duration_arg)))
         ELSE /\ bm_fps = fps_arg
              /\ bm_duration = Some(FloatDiv(FromInt(bm_total_frames), Val(fps_arg)))
    /\ bitmap_pc # "made" =>
         /\ frame_index = FloatMul(Val(bm_fps), frame_t) \div Unit
         /\ frame_index \in 0..(bm_total_frames - 1)
         /\ bitmap_pc = "got"
         /\ frame_ret = Some(DecodeFrame(bitmap_frames[frame_index + 1]))


\* ------------------------------------------------------------ with_opacity
\* A caller takes a clip and calls with_opacity on it, then on what that
\* returned, and so on.
Quarter == <<1, 4>>
Opacities == {Zero, Quarter, Half, One}

ChainStart ==
  /\ ClipStart
  /\ chain_start = ret
  /\ chain_args = <<>>
Chain_with_opacity ==
  \E opacity \in Opacities :
    LET k == Collect(Len(heap), with_opacity(heap, ret, opacity)) IN
      /\ calls < MaxCalls
      /\ calls' = calls + 1
      /\ heap' = k.heap
      /\ ret' = k.id
      /\ recv' = ret
      /\ op' = "with_opacity"
      /\ chain_args' = Append(chain_args, opacity)
      /\ UNCHANGED <<copies, chain_start, notChain>>

InitOpacity == ChainStart /\ FontIdle /\ WrapIdle /\ BlitIdle /\ BitmapIdle
  /\ TextClipIdle
  /\ UpdatedIdle
  /\ SequenceIdle
  /\ CallersIdle
  /\ LawIdle
NextOpacity == Chain_with_opacity
SpecOpacity == InitOpacity /\ [][NextOpacity]_vars

\* The frame at t of the mask of clip c, and of an all-ones mask of the
\* height and width of c's frame at t when c has no mask.
MaskFrameOrOnes(h, c, t) ==
  IF IsNone(h[c].mask)
    THEN LET fr == get_frame(h[c], t) IN Uniform(fr.h, fr.w, 0, One)
    ELSE get_frame(h[Val(h[c].mask)], t)
\* k times each value of a frame of floats.
Times_k(k, fr) ==
  Array(fr.h, fr.w, 0, [q \in Cells(fr.h, fr.w) |-> RMul(k, fr.px[q])])
RECURSIVE Product(_)
Product(s) == IF s = <<>> THEN One ELSE RMul(s[1], Product(Tail(s)))

C12_Original ==
  \A i \in ClipIds(heap) : heap[i].is_mask => IsNone(heap[i].audio)

\* -------------------------------------------------------------- size
\* The frame functions a caller gives a clip: frames of one size to a clip
\* that has has_constant_size true, of a growing width to one that has not.
TallFrames ==
  [t \in Times |->
     Array(2, 1, 3, [q \in Cells(2, 1) |-> IF q[1] = 1 + t THEN Red ELSE Grey])]
TallMaskFrames ==
  [t \in Times |->
     Array(2, 1, 0, [q \in Cells(2, 1) |-> IF q[1] = 1 + t THEN One ELSE Half])]
SizedFrameFns(o) ==
  IF ~o.has_constant_size THEN FrameFnsFor(o.is_mask)
  ELSE IF o.is_mask THEN {TallMaskFrames} ELSE {TallFrames}

SizeStart ==
  /\ \E r \in BaseClips : heap = r.heap /\ ret = r.id
  /\ op = "init" /\ recv = 0 /\ calls = 0 /\ copies = {}
Size_with_make_frame ==
  \E c \in Receivers : \E mf \in SizedFrameFns(heap[c]) :
    Returns("with_make_frame", c, with_make_frame(heap, c, mf))
Do_transform ==
  \E c \in Receivers : \E apply_to \in {{}, {"mask"}} :
    Returns("transform", c, transform(heap, c, TransposeFunc, Reverse, apply_to))
Do_to_ImageClip ==
  \E c \in Receivers : \E t \in Times : \E withmask \in BOOLEAN :
    Returns("to_ImageClip", c, to_ImageClip(heap, c, t, withmask, None))

InitSize == SizeStart /\ FontIdle /\ WrapIdle /\ BlitIdle /\ BitmapIdle
  /\ ChainIdle
  /\ TextClipIdle
  /\ UpdatedIdle
  /\ SequenceIdle
  /\ CallersIdle
  /\ LawIdle
NextSize ==
  \/ Size_with_make_frame \/ Do_image_transform \/ Do_transform
  \/ Do_time_transform \/ Do_to_mask \/ Do_to_RGB \/ Do_to_ImageClip
SpecSize == InitSize /\ [][NextSize]_vars

interline == 4

\* break_text(width, text, font, font_size, ...), lines 1247-1273: the loop
\* over the words from word i on, then the last line.
RECURSIVE BreakFrom(_, _, _, _, _, _)
BreakFrom(ls, cur, ws, i, w, fs) ==
  IF i > Len(ws) THEN Flush(ls, cur)
  ELSE LET Rest(r) == BreakFrom(r.lines, r.current_line, ws, i + 1, w, fs)
       IN Rest(BreakStep(ls, cur, ws[i], w, fs))
break_text(w, str, fs) == BreakFrom(<<>>, <<>>, split(str), 1, w, fs)

\* The line break character.
Newline == "LF"
\* Newline.join(lines)
RECURSIVE Join(_)
Join(ls) ==
  IF ls = <<>> THEN <<>>
  ELSE IF Len(ls) = 1 THEN ls[1]
  ELSE ls[1] \o <<Newline>> \o Join(Tail(ls))
\* The lines of a string, as multiline_textbbox takes them apart.
RECURSIVE LinesFrom(_, _, _)
LinesFrom(str, i, piece) ==
  IF i > Len(str) THEN <<piece>>
  ELSE IF str[i] = Newline THEN <<piece>> \o LinesFrom(str, i + 1, <<>>)
  ELSE LinesFrom(str, i + 1, Append(piece, str[i]))
RECURSIVE Widest(_, _)
Widest(ls, fs) ==
  IF ls = <<>> THEN 0 ELSE Max(TextWidth(Head(ls), fs), Widest(Tail(ls), fs))
\* (right - left, bottom - top) of draw.multiline_textbbox: the widest line,
\* and the lines' heights with the spacing between them; nothing for the
\* empty string.
BBox(str, fs) ==
  LET Box(ls) == <<Widest(ls, fs), Len(ls) * fs + (Len(ls) - 1) * interline>>
  IN IF str = <<>> THEN <<0, 0>> ELSE Box(LinesFrom(str, 1, <<>>))

\* find_text_size(text, font, font_size, ..., max_width, allow_break), lines
\* 1275-1296.
text_size_NoBreak(str, fs, max_w, allow_break) == BBox(str, fs)
text_size(str, fs, max_w, allow_break) ==
  IF IsNone(max_w) THEN BBox(str, fs)
  ELSE IF ~allow_break THEN BBox(str, fs)
  ELSE BBox(Join(break_text(Val(max_w), str, fs)), fs)

\* text_width <= width and (height is None or text_height <= height)
FitsSize(sz, w, h) == sz[1] <= w /\ (IF IsNone(h) THEN TRUE ELSE sz[2] <= Val(h))
\* find_optimum_font_size(text, ..., width, height, allow_break), lines
\* 1298-1322, from the bounds (lo, hi) on.
RECURSIVE Bisect(_, _, _, _, _, _)
Bisect(lo, hi, str, w, h, allow_break) ==
  IF lo < hi
    THEN IF FitsSize(text_size(str, avg_font_size(lo, hi), Some(w), allow_break),
                     w, h)
           THEN Bisect(avg_font_size(lo, hi) + 1, hi, str, w, h, allow_break)
           ELSE Bisect(lo, avg_font_size(lo, hi) - 1, str, w, h, allow_break)
    ELSE IF FitsSize(text_size(str, lo, Some(w), allow_break), w, h)
           THEN lo ELSE lo - 1
find_optimum_font_size(str, w, h, allow_break) ==
  Bisect(1, w, str, w, h, allow_break)

\* file.read().rstrip()
RECURSIVE rstrip(_)
rstrip(str) ==
  IF str # <<>> /\ str[Len(str)] \in {" ", Newline}
    THEN rstrip(SubSeq(str, 1, Len(str) - 1)) ELSE str

\* The arguments a caller gives: a font that pillow can load or not, a text
\* or none, the content of the file named or none, a font size or none, a
\* width and a height or none, and a method.
ClipTexts == UNION {[1..n -> Chars] : n \in 0..MaxClipText}
TextArgs ==
  [font_ok : BOOLEAN,
   text : {None} \cup {Some(s) : s \in ClipTexts},
   filename : {None, Some(<<"a", " ", "M", " ", Newline>>)},
   font_size : {None} \cup {Some(n) : n \in BreakFontSizes},
   width : {None} \cup {Some(n) : n \in 1..MaxLineWidth},
   height : {None, Some(1), Some(6)},
   method : {"caption", "label", "banner"}]

TextClipStart ==
  /\ tc_args \in TextArgs
  /\ tc_text = tc_args.text
  /\ tc_font_size = tc_args.font_size
  /\ tc_img_width = None
  /\ tc_img_height = None
  /\ tc_pc = "font"
  /\ tc_trace = <<>>
  /\ tc_error = None
  /\ tc_clip = None

\* The locals and the position after a step of __init__.
TextClipSet(t, fs, w, h, pc, tr, err, clip) ==
  /\ tc_text' = t
  /\ tc_font_size' = fs
  /\ tc_img_width' = w
  /\ tc_img_height' = h
  /\ tc_pc' = pc
  /\ tc_trace' = tr
  /\ tc_error' = err
  /\ tc_clip' = clip
  /\ UNCHANGED <<tc_args, notTextClip>>
\* raise ValueError(msg), after the calls tr.
TextClipRaise(msg, tr) ==
  TextClipSet(tc_text, tc_font_size, tc_img_width, tc_img_height, "raised",
              tr, Some(msg), None)

\* Lines 1324-1337: the font is tried, the file read, the text required, and
\* size taken apart.
TextClip_validate ==
  /\ tc_pc = "font"
  /\ IF ~tc_args.font_ok THEN TextClipRaise("Invalid font", tc_trace)
     ELSE LET Given(t) ==
                IF IsNone(t)
                  THEN TextClipRaise("No text nor filename provided", tc_trace)
                  ELSE TextClipSet(t, tc_font_size, tc_args.width,
                                   tc_args.height, "method", tc_trace, None, None)
          IN Given(IF ~IsNone(tc_args.filename)
                     THEN Some(rstrip(Val(tc_args.filename))) ELSE tc_text)

\* The tests of lines 1340, 1343 and 1359.
CaptionNeedsWidth(w) == IsNone(w)
CaptionNeedsHeight_Never(h, fs) == FALSE
CaptionNeedsHeight(h, fs) == IsNone(h) /\ IsNone(fs)
LabelNeedsSize(fs, w) == IsNone(fs) /\ IsNone(w)

\* ImageFont.truetype(font, font_size) takes no size below 1.
BadFontSize == "font size must be greater than 0"

\* method == "caption", lines 1339-1356.
TextClip_caption ==
  /\ tc_pc = "method"
  /\ tc_args.method = "caption"
  /\ IF CaptionNeedsWidth(tc_img_width)
       THEN TextClipRaise("Size is mandatory when method is caption", tc_trace)
     ELSE IF CaptionNeedsHeight(tc_img_height, tc_font_size)
       THEN TextClipRaise("Height is mandatory when method is caption and font size is None",
                          tc_trace)
     ELSE
       LET Sized(fs, tr) ==
             IF fs < 1
               THEN TextClipRaise(BadFontSize,
                                  Append(tr, IF IsNone(tc_img_height)
                                               THEN "find_text_size"
                                               ELSE "break_text"))
               ELSE TextClipSet(
                      Some(Join(break_text(Val(tc_img_width), Val(tc_text), fs))),
                      Some(fs), tc_img_width,
                      IF IsNone(tc_img_height)
                        THEN Some(text_size(Val(tc_text), fs, tc_img_width, TRUE)[2])
                        ELSE tc_img_height,
                      "draw",
                      tr \o (IF IsNone(tc_img_height) THEN <<"find_text_size">>
                             ELSE <<>>) \o <<"break_text">>,
                      None, None)
       IN IF IsNone(tc_font_size)
            THEN Sized(find_optimum_font_size(Val(tc_text), Val(tc_img_width),
                                              tc_img_height, TRUE),
                       Append(tc_trace, "find_optimum_font_size"))
            ELSE Sized(Val(tc_font_size), tc_trace)

\* method == "label", lines 1358-1372.
TextClip_label ==
  /\ tc_pc = "method"
  /\ tc_args.method = "label"
  /\ IF LabelNeedsSize(tc_font_size, tc_img_width)
       THEN TextClipRaise("Font size is mandatory when method is label and size is None",
                          tc_trace)
     ELSE
       LET Sized(fs, tr) ==
             IF fs < 1 /\ IsNone(tc_img_height)
               THEN TextClipRaise(BadFontSize, Append(tr, "find_text_size"))
               ELSE
                 LET Wide(w, tr2) ==
                       TextClipSet(
                         tc_text, Some(fs), Some(w),
                         IF IsNone(tc_img_height)
                           THEN Some(text_size(Val(tc_text), fs, Some(w), FALSE)[2])
                           ELSE tc_img_height,
                         "draw",
                         tr2 \o (IF IsNone(tc_img_height)
                                   THEN <<"find_text_size">> ELSE <<>>),
                         None, None)
                 IN IF IsNone(tc_img_width)
                      THEN Wide(text_size(Val(tc_text), fs, None, FALSE)[1],
                                Append(tr, "find_text_size"))
                      ELSE Wide(Val(tc_img_width), tr)
       IN IF IsNone(tc_font_size)
            THEN Sized(find_optimum_font_size(Val(tc_text), Val(tc_img_width),
                                              tc_img_height, FALSE),
                       Append(tc_trace, "find_optimum_font_size"))
            ELSE Sized(Val(tc_font_size), tc_trace)

\* Any other method, lines 1374-1375.
TextClip_method_rejected ==
  /\ tc_pc = "method"
  /\ tc_args.method \notin {"caption", "label"}
  /\ TextClipRaise("Method must be either caption or label.", tc_trace)

\* Lines 1377-1417: the image is made and the text drawn on it; then
\* ImageClip.__init__ takes the size off the image, and the text is stored.
TextClip_draw ==
  /\ tc_pc = "draw"
  /\ IF Val(tc_font_size) < 1
       THEN TextClipRaise(BadFontSize, Append(tc_trace, "Image.new"))
       ELSE TextClipSet(tc_text, tc_font_size, tc_img_width, tc_img_height,
                        "done",
                        tc_trace \o <<"Image.new", "find_text_size",
                                      "multiline_text">>,
                        None,
                        Some([size |-> FrameSize([h |-> Val(tc_img_height),
                                                  w |-> Val(tc_img_width)]),
                              text |-> Val(tc_text)]))

InitTextClip ==
  /\ TextClipStart
  /\ FontIdle /\ WrapIdle /\ ClipIdle /\ BlitIdle /\ BitmapIdle /\ ChainIdle
  /\ UpdatedIdle
  /\ SequenceIdle
  /\ CallersIdle
  /\ LawIdle
NextTextClip ==
  \/ TextClip_validate \/ TextClip_caption \/ TextClip_label
  \/ TextClip_method_rejected \/ TextClip_draw
SpecTextClip == InitTextClip /\ [][NextTextClip]_vars

\* The cases in which the construction is to be rejected.
Rejected(a) ==
  \/ ~a.font_ok
  \/ IsNone(a.text) /\ IsNone(a.filename)
  \/ a.method = "caption" /\ IsNone(a.width)
  \/ a.method = "caption" /\ IsNone(a.height) /\ IsNone(a.font_size)
  \/ a.method = "label" /\ IsNone(a.font_size) /\ IsNone(a.width)
  \/ a.method \notin {"caption", "label"}

\* C14: when the font cannot be loaded, or no text and no filename is given,
\* or the method is caption without a width or without both height and font
\* size, or label without both font size and width, or neither caption nor
\* label, then __init__ raises an error; it has called none of break_text,
\* find_text_size and find_optimum_font_size and made no image, and no clip
\* is made.
C14_Rejected ==
  Rejected(tc_args) =>
    /\ tc_trace = <<>>
    /\ IsNone(tc_clip)
    /\ tc_pc \in {"font", "method", "raised"}
    /\ tc_pc = "raised" <=> ~IsNone(tc_error)
    /\ tc_pc = "method" =>
         ENABLED (NextTextClip /\ tc_pc' = "raised")

\* A caption with a text and a width but neither height nor font size was
\* rejected.
C14_Witness ==
  /\ tc_pc = "raised"
  /\ tc_args.font_ok /\ ~IsNone(tc_args.text) /\ ~IsNone(tc_args.width)
  /\ tc_args.method = "caption"
  /\ IsNone(tc_args.height) /\ IsNone(tc_args.font_size)

\* The text __init__ works on: the file's content when a file is named.
InputText(a) ==
  IF ~IsNone(a.filename) THEN rstrip(Val(a.filename)) ELSE Val(a.text)
\* The height of a text of these lines at font size fs.
LinesHeight(ls, fs) ==
  IF ls = <<>> THEN 0 ELSE Len(ls) * fs + (Len(ls) - 1) * interline
\* A caption was made from a width and a font size, without a height.
CaptionByWidth ==
  /\ tc_pc = "done"
  /\ tc_args.method = "caption"
  /\ ~IsNone(tc_args.width) /\ ~IsNone(tc_args.font_size)
  /\ IsNone(tc_args.height)

\* C15: a caption made from a width and a font size without a height is as
\* wide as asked and as high as the lines break_text returns for the text at
\* that width and font size; its stored text is these lines joined by line
\* breaks, and measuring the stored text without wrapping gives that height.
C15_CaptionHeight ==
  CaptionByWidth =>
    LET Holds(ls, fs) ==
          /\ Val(tc_clip).text = Join(ls)
          /\ Val(tc_clip).size = <<Val(tc_args.width), LinesHeight(ls, fs)>>
          /\ text_size(Val(tc_clip).text, fs, None, FALSE)[2]
               = Val(tc_clip).size[2]
    IN Holds(break_text(Val(tc_args.width), InputText(tc_args),
                        Val(tc_args.font_size)),
             Val(tc_args.font_size))

\* Such a caption whose text was wrapped onto two lines or more.
C15_Witness ==
  /\ CaptionByWidth
  /\ Len(break_text(Val(tc_args.width), InputText(tc_args),
                    Val(tc_args.font_size))) >= 2
  /\ Val(tc_clip).text # InputText(tc_args)

\* ------------------------------------------------------ UpdatedVideoClip
\* world.to_frame(): a picture of the world's state.
to_frame(w) == [clock |-> w.clip_t, updates |-> w.updates]
\* world.update(): the state moves on and clip_t grows by one time step.
update(w, dt) == [clip_t |-> w.clip_t + dt, updates |-> w.updates + 1]
\* while self.world.clip_t < t, line 967.
Behind_OrAt(w, t) == w.clip_t <= t
Behind(w, t) == w.clip_t < t

\* UpdatedVideoClip(world): VideoClip.__init__ asks make_frame for the frame
\* at t = 0, lines 972-974 and 106-107.
UpdatedStart ==
  /\ world \in [clip_t : -1..1, updates : {0}]
  /\ uc_t = 0
  /\ uc_pc = "loop"
  /\ uc_seen = <<world.clip_t>>
  /\ uc_ret = None
  /\ uc_queries = 0
\* get_frame(t): make_frame is entered.
Updated_get_frame ==
  /\ uc_pc = "idle"
  /\ uc_queries < MaxQueries
  /\ \E t \in 0..MaxQueryTime : uc_t' = t
  /\ uc_queries' = uc_queries + 1
  /\ uc_pc' = "loop"
  /\ uc_seen' = <<world.clip_t>>
  /\ UNCHANGED <<world, uc_ret, notUpdated>>
\* One turn of the loop, lines 967-968.
Updated_update ==
  /\ uc_pc = "loop"
  /\ Behind(world, uc_t)
  /\ \E dt \in 1..MaxStep : world' = update(world, dt)
  /\ uc_seen' = Append(uc_seen, world'.clip_t)
  /\ UNCHANGED <<uc_t, uc_pc, uc_ret, uc_queries, notUpdated>>
\* return world.to_frame(), line 969.
Updated_return ==
  /\ uc_pc = "loop"
  /\ ~Behind(world, uc_t)
  /\ uc_ret' = Some(to_frame(world))
  /\ uc_pc' = "idle"
  /\ UNCHANGED <<world, uc_t, uc_seen, uc_queries, notUpdated>>

InitUpdated ==
  /\ UpdatedStart
  /\ FontIdle /\ WrapIdle /\ ClipIdle /\ BlitIdle /\ BitmapIdle /\ ChainIdle
  /\ TextClipIdle
  /\ SequenceIdle
  /\ CallersIdle
  /\ LawIdle
NextUpdated == Updated_get_frame \/ Updated_update \/ Updated_return
SpecUpdated == InitUpdated /\ [][NextUpdated]_vars

\* C16: the world is updated only inside a frame query and only while its
\* clock is below the time asked for, one update at a time; the clock never
\* decreases; and when the query returns, it returns to_frame() of the world
\* as it is, the clock has reached or passed t, every state the world went
\* through before had its clock below t, and no update was made when the
\* clock had reached t at the start.
C16_Stepped ==
  [][/\ world'.clip_t >= world.clip_t
     /\ world' # world =>
          /\ uc_pc = "loop" /\ world.clip_t < uc_t
          /\ world'.updates = world.updates + 1
     /\ (uc_pc = "loop" /\ uc_pc' = "idle") =>
          /\ world' = world
          /\ uc_ret' = Some(to_frame(world))
          /\ world.clip_t >= uc_t
          /\ uc_seen[Len(uc_seen)] = world.clip_t
          /\ \A i \in 1..(Len(uc_seen) - 1) : uc_seen[i] < uc_t
          /\ uc_seen[1] >= uc_t => Len(uc_seen) = 1]_vars

\* A query returned after two updates or more, the clock past t; and a query
\* returned with no update.
C16_Witness ==
  /\ uc_pc = "idle"
  /\ uc_queries >= 2
  /\ \/ Len(uc_seen) >= 3 /\ world.clip_t > uc_t
     \/ Len(uc_seen) = 1 /\ world.clip_t > uc_t /\ world.updates >= 2

\* -------------------------------------------------- write_images_sequence
\* math.ceil of a positive float.
Ceil(x) == (x + Unit - 1) \div Unit
\* np.arange(0, stop, step) on floats: ceil((stop - 0) / step) values, the
\* i-th being 0 + i * step.
arange(stop, step) ==
  [i \in 1..Ceil(FloatDiv(stop, step)) |-> FloatMul(FromInt(i - 1), step)]
\* name_format % i
Name(i) == <<"frame", i>>

SequenceStart ==
  /\ seq_duration \in {None} \cup {Some(d) : d \in Floats}
  /\ seq_fps \in 1..MaxFps
  /\ timings = <<>>
  /\ seq_i = 0
  /\ filenames = <<>>
  /\ saved = <<>>
  /\ seq_pc = "called"
  /\ seq_ret = None
\* @requires_duration: a clip without duration is refused.
Sequence_no_duration ==
  /\ seq_pc = "called"
  /\ IsNone(seq_duration)
  /\ seq_pc' = "raised"
  /\ UNCHANGED <<seq_duration, seq_fps, timings, seq_i, filenames, saved,
                 seq_ret, notSequence>>
\* timings = np.arange(0, self.duration, 1.0 / fps), line 445.
Sequence_timings ==
  /\ seq_pc = "called"
  /\ ~IsNone(seq_duration)
  /\ timings' = arange(Val(seq_duration), FloatDiv(FromInt(1), FromInt(seq_fps)))
  /\ seq_pc' = "loop"
  /\ UNCHANGED <<seq_duration, seq_fps, seq_i, filenames, saved, seq_ret,
                 notSequence>>
\* One turn of the loop over enumerate(timings), lines 448-451.
Sequence_save_frame ==
  /\ seq_pc = "loop"
  /\ seq_i < Len(timings)
  /\ filenames' = Append(filenames, Name(seq_i))
  /\ saved' = Append(saved, [name |-> Name(seq_i), t |-> timings[seq_i + 1]])
  /\ seq_i' = seq_i + 1
  /\ UNCHANGED <<seq_duration, seq_fps, timings, seq_pc, seq_ret, notSequence>>
\* return filenames, line 454.
Sequence_return ==
  /\ seq_pc = "loop"
  /\ ~(seq_i < Len(timings))
  /\ seq_ret' = Some(filenames)
  /\ seq_pc' = "done"
  /\ UNCHANGED <<seq_duration, seq_fps, timings, seq_i, filenames, saved,
                 notSequence>>

InitSequence ==
  /\ SequenceStart
  /\ FontIdle /\ WrapIdle /\ ClipIdle /\ BlitIdle /\ BitmapIdle /\ ChainIdle
  /\ TextClipIdle /\ UpdatedIdle
  /\ CallersIdle
  /\ LawIdle
NextSequence ==
  \/ Sequence_no_duration \/ Sequence_timings \/ Sequence_save_frame
  \/ Sequence_return
SpecSequence == InitSequence /\ [][NextSequence]_vars

\* The k = 0, 1, 2, ... with k / fps < D, D in units of 2^-FracBits.
Stamps(d, fps) == {k \in 0..(d * fps) : k * Unit < d * fps}

\* C17 as stated: when write_images_sequence returns, the frames saved are
\* those of the k with k / fps < D, one each, in increasing order of k, the
\* k-th under the name name_format % k, and the list returned is these names
\* in that order.
C17_Original ==
  seq_pc = "done" =>
    /\ Len(saved) = Cardinality(Stamps(Val(seq_duration), seq_fps))
    /\ \A j \in DOMAIN saved :
         /\ (j - 1) \in Stamps(Val(seq_duration), seq_fps)
         /\ saved[j].name = Name(j - 1)
    /\ seq_ret = Some([j \in DOMAIN saved |-> saved[j].name])

\* -------------------------------------------------------------- ColorClip
\* The colors a caller gives ColorClip: none, a float, or RGB.
ColorChoices == {None, Some(Half), Some(One), Some(Red)}
IsScalar(color) == color \in {Zero, Half, One}
\* The tests of lines 1130 and 1135: the color cannot be used.
ColorRefused(color, is_mask) ==
  IF IsNone(color) THEN FALSE
  ELSE IF is_mask THEN ~IsScalar(Val(color))
  ELSE IsScalar(Val(color))

ColorStart ==
  /\ heap = <<>> /\ op = "init" /\ recv = 0 /\ ret = 0 /\ calls = 0
  /\ copies = {}
  /\ chain_start = 0
  /\ chain_args = <<>>
\* ColorClip(size, color, is_mask, duration): the clip is added to the
\* caller's clips, or the constructor raises.
ColorClip_init ==
  \E w, h \in 1..MaxSide : \E color \in ColorChoices : \E is_mask \in BOOLEAN :
    LET Made(r) == heap' = r.heap /\ ret' = r.id
    IN /\ calls < MaxCalls
       /\ calls' = calls + 1
       /\ recv' = 0
       /\ chain_args' = Append(chain_args, [size |-> <<w, h>>, color |-> color,
                                            is_mask |-> is_mask])
       /\ IF ColorRefused(color, is_mask)
            THEN op' = "raised" /\ UNCHANGED <<heap, ret>>
            ELSE /\ op' = "ColorClip"
                 /\ Made(ColorClipInit(heap, <<w, h>>, color, is_mask, None))
       /\ UNCHANGED <<copies, chain_start, notChain>>

InitColor ==
  /\ ColorStart
  /\ FontIdle /\ WrapIdle /\ BlitIdle /\ BitmapIdle /\ TextClipIdle
  /\ UpdatedIdle /\ SequenceIdle
  /\ CallersIdle
  /\ LawIdle
NextColor == ColorClip_init
SpecColor == InitColor /\ [][NextColor]_vars

\* C18 as stated: a ColorClip made without a color is 1 at every pixel when
\* it is a mask, and black when it is not.
C18_Original ==
  (op = "ColorClip" /\ IsNone(chain_args[Len(chain_args)].color)) =>
    LET a == chain_args[Len(chain_args)]
        fr == get_frame(heap[ret], 0)
    IN /\ FrameSize(fr) = a.size
       /\ \A q \in Cells(fr.h, fr.w) :
            fr.px[q] = IF a.is_mask THEN One ELSE <<0, 0, 0>>

\* ------------------------------------------------- to_mask, then to_RGB
\* A caller takes a clip that is no mask, calls to_mask(canal) on it and
\* to_RGB on the mask returned.
Chain_to_mask ==
  \E canal \in 0..2 :
    LET k == Collect(Len(heap), to_mask(heap, ret, canal)) IN
      /\ calls = 0
      /\ calls' = calls + 1
      /\ heap' = k.heap
      /\ ret' = k.id
      /\ recv' = ret
      /\ op' = "to_mask"
      /\ chain_args' = Append(chain_args, canal)
      /\ UNCHANGED <<copies, chain_start, notChain>>
Chain_to_RGB ==
  LET k == Collect(Len(heap), to_RGB(heap, ret)) IN
    /\ op = "to_mask"
    /\ calls' = calls + 1
    /\ heap' = k.heap
    /\ ret' = k.id
    /\ recv' = ret
    /\ op' = "to_RGB"
    /\ UNCHANGED <<copies, chain_start, chain_args, notChain>>

InitRoundTrip ==
  /\ ChainStart
  /\ FontIdle /\ WrapIdle /\ BlitIdle /\ BitmapIdle /\ TextClipIdle
  /\ UpdatedIdle /\ SequenceIdle
  /\ CallersIdle
  /\ LawIdle
NextRoundTrip == Chain_to_mask \/ Chain_to_RGB
SpecRoundTrip == InitRoundTrip /\ [][NextRoundTrip]_vars

\* Channel canal of an RGB frame, as it is and divided by 255.
ChannelOf(fr, canal) == [q \in Cells(fr.h, fr.w) |-> fr.px[q][canal + 1]]
\* The frame of floats with value v / 255 where an array has v.
Normalized(fr, canal) ==
  Array(fr.h, fr.w, 0,
        [q \in Cells(fr.h, fr.w) |-> Rat(ChannelOf(fr, canal)[q], 255)])
\* The RGB frame whose three channels are 255 times a frame of floats.
Tripled(fr) ==
  Array(fr.h, fr.w, 3,
        [q \in Cells(fr.h, fr.w) |->
           LET v == ToUint8(RMul(<<255, 1>>, fr.px[q])) IN <<v, v, v>>])

\* C19: to_mask(c) on a clip that is no mask gives a mask whose frame at
\* every t is channel c of the clip's frame divided by 255; to_RGB on that
\* mask gives a clip that is no mask whose frame at every t has three equal
\* channels, each 255 times the mask's value, which is channel c of the
\* first clip's frame.
C19_RoundTrip ==
  /\ op = "to_mask" =>
       /\ heap[ret].is_mask /\ ~heap[chain_start].is_mask
       /\ \A t \in Times :
            get_frame(heap[ret], t)
              = Normalized(get_frame(heap[chain_start], t), chain_args[1])
  /\ op = "to_RGB" =>
       /\ ~heap[ret].is_mask /\ heap[recv].is_mask
       /\ \A t \in Times :
            /\ get_frame(heap[ret], t) = Tripled(get_frame(heap[recv], t))
            /\ get_frame(heap[ret], t).ch = 3
            /\ FrameSize(get_frame(heap[ret], t))
                 = FrameSize(get_frame(heap[chain_start], t))
            /\ \A q \in DOMAIN get_frame(heap[ret], t).px :
                 \A j \in 1..3 :
                   get_frame(heap[ret], t).px[q][j]
                     = ChannelOf(get_frame(heap[chain_start], t),
                                 chain_args[1])[q]

\* The round trip through channel 1 of a clip that has a pixel whose
\* channels differ, so that the frame returned is not the one started from.
C19_Witness ==
  /\ op = "to_RGB"
  /\ chain_args = <<1>>
  /\ \E q \in DOMAIN get_frame(heap[chain_start], 0).px :
       /\ get_frame(heap[chain_start], 0).px[q][2] \notin {0, 255}
       /\ get_frame(heap[chain_start], 0).px[q][1]
            # get_frame(heap[chain_start], 0).px[q][2]
  /\ get_frame(heap[ret], 0) # get_frame(heap[chain_start], 0)

\* ----------------------------------------------------------- two callers
\* Two callers take a copy() each of one clip that has a mask, and make
\* mask-changing calls on what they hold, in any order of their steps.
Callers == {1, 2}
\* The calls: with_opacity(alpha), with_mask(None), with_mask of a mask the
\* caller makes for it, and with_add_mask().
MaskCalls ==
  {[name |-> "with_opacity", arg |-> a] : a \in {Half, Quarter}}
    \cup {[name |-> "with_mask", arg |-> a] : a \in {None, Some(Half)}}
    \cup {[name |-> "with_add_mask", arg |-> None]}
\* One call on clip c of heap h.
MaskCall(h, c, call) ==
  CASE call.name = "with_opacity" -> with_opacity(h, c, call.arg)
    [] call.name = "with_add_mask" -> with_add_mask(h, c)
    [] call.name = "with_mask" /\ IsNone(call.arg) -> with_mask(h, c, None)
    [] call.name = "with_mask" /\ ~IsNone(call.arg) ->
         LET Given(m) == with_mask(m.heap, c, Some(m.id))
         IN Given(ColorClipInit(h, h[c].size, call.arg, TRUE, None))

CallersStart ==
  /\ \E r \in {s \in StartClips : /\ ~IsNone(s.heap[s.id].mask)
                                  /\ IsNone(s.heap[s.id].audio)} :
       heap = r.heap /\ ret = r.id /\ first_clip = r
  /\ op = "init" /\ recv = 0 /\ calls = 0 /\ copies = {}
  /\ held = [i \in Callers |-> 0]
  /\ logs = [i \in Callers |-> <<>>]
\* Caller i has done a step that returned r.
CallerHolds(i, name, r) ==
  LET k == Collect(Len(heap), r) IN
    /\ calls < MaxCalls + 2
    /\ calls' = calls + 1
    /\ heap' = k.heap
    /\ ret' = k.id
    /\ held' = [held EXCEPT ![i] = k.id]
    /\ op' = name
    /\ UNCHANGED <<copies, first_clip, notCallers>>
Caller_copy ==
  \E i \in Callers :
    /\ held[i] = 0
    /\ recv' = first_clip.id
    /\ UNCHANGED logs
    /\ CallerHolds(i, "copy", copy(heap, first_clip.id))
Caller_call ==
  \E i \in Callers : \E call \in MaskCalls :
    /\ held[i] # 0
    /\ recv' = held[i]
    /\ logs' = [logs EXCEPT ![i] = Append(logs[i], call)]
    /\ CallerHolds(i, call.name, MaskCall(heap, held[i], call))

InitCallers ==
  /\ CallersStart
  /\ FontIdle /\ WrapIdle /\ BlitIdle /\ BitmapIdle /\ ChainIdle
  /\ TextClipIdle /\ UpdatedIdle /\ SequenceIdle
  /\ LawIdle
NextCallers == Caller_copy \/ Caller_call
SpecCallers == InitCallers /\ [][NextCallers]_vars

\* The calls of a log made one after the other, nobody else at work.
RECURSIVE Replay(_, _)
Replay(r, log) ==
  IF log = <<>> THEN r
  ELSE Replay(MaskCall(r.heap, r.id, Head(log)), Tail(log))
\* The mask of the clip a call returned.
MaskAfter(r) == Part(r.heap, r.heap[r.id].mask)

\* C20: after every step of either caller, the mask of the clip a caller
\* holds is the one its own calls give when made alone on a copy of the
\* clip; the clips the callers hold, and their masks, are other objects than
\* the clip they started from, its mask, and each other's; and the step has
\* changed no object there was, so neither the first clip's mask nor the
\* other caller's.
C20_Apart ==
  [][/\ HeapKept
     /\ heap'[first_clip.id] = first_clip.heap[first_clip.id]
     /\ Part(heap', heap'[first_clip.id].mask) = MaskAfter(first_clip)
     /\ \A i \in Callers :
          held'[i] # 0 =>
            /\ Part(heap', heap'[held'[i]].mask)
                 = MaskAfter(Replay(copy(first_clip.heap, first_clip.id),
                                    logs'[i]))
            /\ held'[i] # first_clip.id
            /\ heap'[held'[i]].mask # heap'[first_clip.id].mask
            /\ \A j \in Callers \ {i} :
                 held'[j] # 0 =>
                   /\ held'[j] # held'[i]
                   /\ IsNone(heap'[held'[i]].mask)
                        \/ heap'[held'[j]].mask # heap'[held'[i]].mask]_vars

\* Both callers have called with_opacity on their copies, with different
\* alphas, the second caller in between the copy and the call of the first.
C20_Witness ==
  /\ Len(logs[1]) = 1 /\ Len(logs[2]) = 1
  /\ logs[1][1].name = "with_opacity" /\ logs[2][1].name = "with_opacity"
  /\ logs[1][1].arg # logs[2][1].arg
  /\ held[1] < held[2]
  /\ MaskAfter(Result(heap, held[1])) # MaskAfter(Result(heap, held[2]))
  /\ MaskAfter(Result(heap, held[1])) # MaskAfter(first_clip)

\* ------------------------------------------------ blit_on, the clip time
\* Clips whose frame, mask and position all change with time: the mask is
\* 1.0 at time 0 and 0.5 at time 1; the position moves along x or along y.
FadingMask(w, h) ==
  [t \in Times |-> Uniform(h, w, 0, IF t = 0 THEN One ELSE Half)]
MovingPos ==
  {[t \in Times |-> PosPair(Px(<<t, 1>>), Px(Zero))],
   [t \in Times |-> PosPair(Px(<<1, 1>>), Px(<<1 - t, 1>>))]}
MovingClip(w, h, masked, pos, st) ==
  LET Placed(o, mask) == [o EXCEPT !.start = st, !.pos = pos, !.mask = mask]
      clip == VideoClipInit(PaintedFrames(w, h), FALSE, None, TRUE)
  IN IF masked
       THEN <<VideoClipInit(FadingMask(w, h), TRUE, None, TRUE),
              Placed(clip, Some(1))>>
       ELSE <<Placed(clip, None)>>
\* blit_on(picture, t) is called at a time t with t - start in the clip.
BlitTimeStart ==
  /\ \E w \in Sides, h \in Sides, pos \in MovingPos, masked \in BOOLEAN :
       \E st \in Times : \E t \in Times :
         /\ t - st \in Times
         /\ heap = MovingClip(w, h, masked, pos, st)
         /\ ret = Len(heap)
         /\ blit_t = t
  /\ \E wf \in 1..MaxPicture, hf \in 1..MaxPicture :
       picture = Some(Uniform(hf, wf, 3, <<1, 2, 3>>))
  /\ op = "init" /\ recv = 0 /\ calls = 0 /\ copies = {}
  /\ im_img = None /\ im_mask = None /\ blit_pos = <<>> /\ blit_ret = None
  /\ blit_pc = "start"
InitBlitTime ==
  /\ BlitTimeStart
  /\ FontIdle /\ WrapIdle /\ BitmapIdle /\ ChainIdle /\ TextClipIdle
  /\ UpdatedIdle /\ SequenceIdle /\ CallersIdle
  /\ LawIdle
SpecBlitTime == InitBlitTime /\ [][NextBlit]_vars

\* C21: the image handed to blit is the clip's frame at t - start, the mask
\* handed to blit is 255 times the mask's frame at t - start, the position is
\* the one pos gives at t - start; and no step of blit_on changes an
\* attribute of the clip or of its mask.
C21_ClipTime ==
  [][/\ heap' = heap
     /\ blit_pc' \in {"images", "placed", "done"} =>
          /\ Val(im_img') = get_frame(heap[ret], blit_t - heap[ret].start)
          /\ IF IsNone(heap[ret].mask) THEN IsNone(im_mask')
             ELSE \A q \in DOMAIN Val(im_mask').px :
                    Val(im_mask').px[q]
                      = IF blit_t - heap[ret].start = 0 THEN 255 ELSE 127
     /\ blit_pc' \in {"placed", "done"} =>
          blit_pos'
            = <<heap[ret].pos[blit_t - heap[ret].start].xy[1].val[1],
                heap[ret].pos[blit_t - heap[ret].start].xy[2].val[1]>>]_vars

\* blit_on has returned for a clip with a mask that starts at 1, asked at
\* t = 1: the clip time is 0, not t.
C21_Witness ==
  /\ blit_pc = "done"
  /\ heap[ret].start = 1 /\ blit_t = 1
  /\ ~IsNone(heap[ret].mask)
  /\ heap[ret].pos[0] # heap[ret].pos[1]

\* ------------------------------------- find_optimum_font_size, termination
\* The function is straight-line sequential code: while a step of it is
\* possible, one is taken.
SpecFontLive == InitFont /\ [][NextFont]_vars /\ WF_vars(NextFont)

\* C22: for every width >= 1 and every fit predicate, monotone or not, the
\* function returns; every iteration of the loop makes max_font_size -
\* min_font_size strictly smaller; the loop is left only when
\* min_font_size >= max_font_size; the value returned lies in 0..width.
C22_Terminates ==
  /\ <>(font_pc = "done")
  /\ [][/\ font_pc' = "loop" =>
             max_font_size' - min_font_size' < max_font_size - min_font_size
        /\ font_pc' = "done" => ~(min_font_size < max_font_size)]_vars
  /\ [](font_pc = "done" => Val(font_size) \in 0..width)

\* A run of two iterations or more has returned, for a fit predicate that is
\* not monotone.
C22_Witness ==
  /\ font_pc = "done"
  /\ ~Monotone
  /\ Cardinality(measured) >= 3

\* ------------------------------- find_optimum_font_size, the size returned
\* C23: whatever the fit predicate, monotone or not, the size returned is 0
\* and then no size measured during the call fitted, or it is a size that
\* was measured during the call and fitted the box.
C23_MeasuredFit ==
  font_pc = "done" =>
    IF Val(font_size) = 0
      THEN \A s \in measured : ~Fits(s)
      ELSE Val(font_size) \in measured /\ Fits(Val(font_size))

\* The last candidate did not fit and the size below it is returned, for a
\* fit predicate that is not monotone.
C23_Witness ==
  /\ font_pc = "done"
  /\ ~Monotone
  /\ Val(font_size) = min_font_size - 1
  /\ Val(font_size) > 0

\* --------------------------------------------------- masks are mask clips
\* The clips a caller starts from: a VideoClip of constant and of growing
\* size, a ColorClip and an ImageClip made from a picture with an alpha
\* channel, each as constructed and after with_add_mask().
MaskStart ==
  /\ \E r \in BaseClips \cup {Collect(1, with_add_mask(b.heap, b.id)) :
                                b \in BaseClips} :
       heap = r.heap /\ ret = r.id
  /\ op = "init" /\ recv = 0 /\ calls = 0 /\ copies = {}
\* with_mask(mask) with None or any clip at hand, lines 740-748: the
\* assertion of line 747 passes and the copy gets the mask, or it fails and
\* no clip is returned.
Mask_with_mask ==
  \E c \in Receivers : \E m \in {None} \cup {Some(i) : i \in ClipIds(heap)} :
    IF MaskAccepted(heap, m)
      THEN Returns("with_mask", c, with_mask(heap, c, m))
      ELSE Raises(c)
InitMask == MaskStart /\ FontIdle /\ WrapIdle /\ BlitIdle /\ BitmapIdle
  /\ ChainIdle /\ TextClipIdle /\ UpdatedIdle /\ SequenceIdle /\ CallersIdle
  /\ LawIdle
NextMask ==
  \/ Mask_with_mask \/ Do_with_add_mask \/ Do_with_opacity
  \/ Do_to_ImageClip \/ Do_image_transform \/ Do_copy
  \/ Do_to_mask \/ Do_to_RGB
SpecMask == InitMask /\ [][NextMask]_vars

\* C24: in every state reached by the constructors and any sequence of
\* with_mask, with_add_mask, with_opacity, to_ImageClip, image_transform,
\* copy, to_mask and to_RGB, every clip whose mask is not None has a mask
\* with is_mask true; a call of with_mask returns a clip only when the mask
\* given is None or a mask, and a call that raised left the clips as they
\* were and returned none.
C24_MasksAreMasks ==
  /\ [](\A i \in ClipIds(heap) :
          IsNone(heap[i].mask) \/ heap[Val(heap[i].mask)].is_mask)
  /\ [][/\ op' = "with_mask" =>
             (IsNone(heap'[ret'].mask) \/ heap'[Val(heap'[ret'].mask)].is_mask)
        /\ op' = "raised" => (heap' = heap /\ ret' = ret)]_vars

\* A second call has returned an ImageClip with a mask, made by to_ImageClip
\* from a clip that had one.
C24_Witness ==
  /\ calls = MaxCalls
  /\ op = "to_ImageClip"
  /\ ~IsNone(heap[ret].mask)
  /\ heap[Val(heap[ret].mask)].cls = "ImageClip"

\* ------------------------------------------------- break_text, the words
\* The non-empty pieces of a string split on single spaces, in order.
NonEmpty(piece) == piece # <<>>
WordsOf(str) == SelectSeq(split(str), NonEmpty)
\* The non-empty words read across a list of lines, line after line.
RECURSIVE WordsAcross(_)
WordsAcross(ls) ==
  IF ls = <<>> THEN <<>> ELSE WordsOf(Head(ls)) \o WordsAcross(Tail(ls))

\* C25: for every text and every max_width, the non-empty words read across
\* the returned lines, in order, are the non-empty words of the text split
\* on single spaces: none is dropped, repeated, split or moved.
C25_WordsKept ==
  wrap_pc = "done" => WordsAcross(lines) = WordsOf(text)

\* A text with two spaces in a row was broken into two lines or more.
C25_Witness ==
  /\ wrap_pc = "done"
  /\ Len(lines) >= 2
  /\ Len(WordsOf(text)) >= 2
  /\ \E i \in DOMAIN words : words[i] = <<>>

\* --------------------------------------------- break_text, empty lines
\* A text of non-empty words separated by single spaces.
SingleSpaced(str) ==
  str # <<>> /\ \A i \in DOMAIN split(str) : split(str)[i] # <<>>

\* C27 as stated: for a text of non-empty words separated by single spaces
\* and any max_width, no returned line is empty, and there are at most as
\* many lines as words.
C27_Original ==
  (wrap_pc = "done" /\ SingleSpaced(text)) =>
    /\ \A j \in DOMAIN lines : lines[j] # <<>>
    /\ Len(lines) <= Len(words)

\* ------------------------------------- UpdatedVideoClip, one caller in order
\* A world whose update() is deterministic and strictly increases clip_t:
\* the step of its n-th update is fixed by the world from the start.
StepRules == [0..(MaxQueryTime + 1) -> 1..MaxStep]
\* UpdatedVideoClip(world): the constructor asks for the frame at t = 0,
\* lines 972-974 and 105-107.
LawStart ==
  /\ first_world \in [clip_t : -1..1, updates : {0}]
  /\ step_rule \in StepRules
  /\ world = first_world
  /\ uc_t = 0
  /\ uc_pc = "loop"
  /\ uc_seen = <<world.clip_t>>
  /\ uc_ret = None
  /\ uc_queries = 0
\* get_frame(t) by the one caller, at a time not before the last one asked.
Law_get_frame ==
  /\ uc_pc = "idle"
  /\ uc_queries < MaxQueries
  /\ \E t \in uc_t..MaxQueryTime : uc_t' = t
  /\ uc_queries' = uc_queries + 1
  /\ uc_pc' = "loop"
  /\ uc_seen' = <<world.clip_t>>
  /\ UNCHANGED <<world, uc_ret, lawVars, notLaw>>
\* One turn of the loop, lines 967-968, with the world's own step.
Law_update ==
  /\ uc_pc = "loop"
  /\ Behind(world, uc_t)
  /\ world' = update(world, step_rule[world.updates])
  /\ uc_seen' = Append(uc_seen, world'.clip_t)
  /\ UNCHANGED <<uc_t, uc_pc, uc_ret, uc_queries, lawVars, notLaw>>
InitLaw ==
  /\ LawStart
  /\ FontIdle /\ WrapIdle /\ ClipIdle /\ BlitIdle /\ BitmapIdle /\ ChainIdle
  /\ TextClipIdle /\ SequenceIdle /\ CallersIdle
NextLaw == Law_get_frame \/ Law_update \/ Updated_return
SpecLaw == InitLaw /\ [][NextLaw]_vars

\* The first state with a clock at t or later that a world reaches by its
\* own updates, from the state w.
RECURSIVE WorldAt(_, _)
WorldAt(w, t) ==
  IF w.clip_t < t THEN WorldAt([clip_t |-> w.clip_t + step_rule[w.updates],
                                updates |-> w.updates + 1], t)
  ELSE w

\* C26: with a deterministic update that strictly increases clip_t and one
\* caller asking at non-decreasing times, the frame returned for t is the
\* frame of the first state with clock >= t that the world reaches from its
\* first state: it is fixed by t and the first state, whatever times were
\* asked before t, the constructor's t = 0 included.
C26_Deterministic ==
  (uc_pc = "idle" /\ ~IsNone(uc_ret)) =>
     /\ Val(uc_ret).clock = WorldAt(first_world, uc_t).clip_t
     /\ Val(uc_ret).updates = WorldAt(first_world, uc_t).updates

\* The last of the caller's queries returned, at a later time than queries
\* before it and after updates in this query and in earlier ones, for a
\* world whose steps differ.
C26_Witness ==
  /\ uc_pc = "idle"
  /\ uc_queries = MaxQueries
  /\ uc_t > 0
  /\ Len(uc_seen) >= 2
  /\ world.updates > Len(uc_seen) - 1
  /\ step_rule[0] # step_rule[1]
====
